---- MODULE Spec2Model ----
(***************************************************************************)
(* Verification model of the content agent (frankieoutspoken/              *)
(* ghostautomation).                                                       *)
(*                                                                         *)
(* Part 1: the agentic tool-calling loop, src/strands-agent/agent.ts       *)
(* (runContentAgent, executeTool, and the tool registry): Spec.            *)
(* Part 2: the duplicate matchers, the response parser and the generators, *)
(* each under a specification of its own that draws the inputs at Init.    *)
(*                                                                         *)
(* Strings are modelled as sequences of tokens: the empty string is <<>>   *)
(* and concatenation is \o, so that "non-empty" and "contains" are real    *)
(* questions about a value.                                                *)
(***************************************************************************)
EXTENDS Integers, Sequences, FiniteSets, TLC

VARIABLES
    pc,            \* position of runContentAgent
    messages,      \* messages: Anthropic.MessageParam[]
    response,      \* the last response of client.messages.create
    iterations,    \* let iterations
    toolResults,   \* toolResults of the tool batch under execution
    cursor,        \* index of `block` in `for (const block of assistantContent)`
    result,        \* the string runContentAgent returned
    modelCalls,    \* history: number of client.messages.create calls made
    modelFailed,   \* history: a client.messages.create call has thrown
    toolBatches,   \* history: number of tool batches submitted back to the model
    toolsExecuted, \* history: number of executeTool calls made
    lastExec,      \* history: the last executeTool call and what it did
    variedCall,    \* environment: the model call whose response is arbitrary
    given,         \* the input of the function or generator under study
    returned,      \* what that function returned
    gen,           \* position and locals of the generator under study
    store          \* the posts written to the publishing store (posts.add)

\* The variables the agent loop does not touch.
otherVars == <<given, returned, gen, store>>

\* The variables of the agent loop.
agentVars == <<pc, messages, response, iterations, toolResults, cursor, result,
               modelCalls, modelFailed, toolBatches, toolsExecuted, lastExec,
               variedCall>>

vars == <<agentVars, otherVars>>

----------------------------------------------------------------------------
(* Bounds and program constants *)

\* agent.ts:268  const maxIterations = 15
maxIterations == 15

\* the longest content (list of blocks) of an arbitrary model response
MaxBlocks == 2

----------------------------------------------------------------------------
(* Values *)

Undefined == "undefined"
NoResponse == [stop_reason |-> "none", content |-> <<>>]
NoResult == <<"<no result>">>
NoExec == [name |-> "none"]

\* The value of a variable that the specification at hand does not use.
Idle == [op |-> "idle"]

\* the caller's request string
Request == <<"request">>

\* What a property of `input` evaluates to: input.f, undefined when absent.
Get(input, f) == IF f \in DOMAIN input THEN input[f] ELSE Undefined

\* JavaScript's `x || d` for the optional numeric inputs.
OrDefault(x, d) == IF x = Undefined THEN d ELSE x

----------------------------------------------------------------------------
(* The tool registry (agent.ts:14-126): name and required input fields *)

tools == <<
    [name |-> "list_interviews", required |-> {}],
    [name |-> "read_interview",  required |-> {"documentId"}],
    [name |-> "list_articles",   required |-> {}],
    [name |-> "search_articles", required |-> {"query"}],
    [name |-> "check_duplicate", required |-> {"title"}],
    [name |-> "create_draft",    required |-> {"title", "html"}],
    [name |-> "web_search",      required |-> {"query"}],
    [name |-> "research_topic",  required |-> {"topic"}],
    [name |-> "list_ideas",      required |-> {}],
    [name |-> "read_idea",       required |-> {"documentId"}] >>

ToolNames == {tools[i].name : i \in 1..Len(tools)}

\* A name the model may hallucinate: it is in no registry entry.
UnknownTool == "publish_article"

Required(name) ==
    IF name \in ToolNames
    THEN (CHOOSE t \in {tools[i] : i \in 1..Len(tools)} : t.name = name).required
    ELSE {}

----------------------------------------------------------------------------
(* The external collaborators and the services in front of them.           *)
(* env is what the outside world does during one tool execution:           *)
(*   "ok"           the collaborator answers                               *)
(*   "throw"        the collaborator throws an Error with a message        *)
(*   "throwEmpty"   the collaborator throws an Error whose message is ""   *)
(*   "throwValue"   the collaborator throws a value that is no Error       *)
(*   "unconfigured" the service's client / key / folder was never set      *)
(* A service returns [threw, value, error, calls]: calls are the requests  *)
(* that reached an external collaborator, with their arguments.            *)

Envs == {"ok", "throw", "throwEmpty", "throwValue", "unconfigured"}

NoError == [inst |-> FALSE, message |-> <<"<no error>">>]

Returns(value, calls) ==
    [threw |-> FALSE, value |-> value, error |-> NoError, calls |-> calls]

Throws(error, calls) ==
    [threw |-> TRUE, value |-> <<>>, error |-> error, calls |-> calls]

CollabError(env) ==
    CASE env = "throwEmpty" -> [inst |-> TRUE,  message |-> <<>>]
      [] env = "throwValue" -> [inst |-> FALSE, message |-> <<>>]
      [] OTHER              -> [inst |-> TRUE,  message |-> <<"request failed">>]

\* x.toLowerCase() and the like on undefined
TypeError ==
    [inst |-> TRUE, message |-> <<"Cannot read properties of undefined">>]

NotInitialized(client) ==
    [inst |-> TRUE, message |-> <<client, " not initialized">>]

\* The googleapis client checks a request's required parameters before it
\* sends anything: an undefined file id is refused on the spot.
MissingParameter ==
    [inst |-> TRUE, message |-> <<"Missing required parameters: fileId">>]

\* One request to an external collaborator; arg is the record of its parameters.
Call(api, arg) == [api |-> api, arg |-> arg]

\* google-docs.ts listInterviews
listInterviews(folderId, env) ==
    CASE env = "unconfigured" -> Throws(NotInitialized("Google clients"), <<>>)
      [] env = "ok" -> Returns(<<"interviews">>, <<Call("drive.files.list", [parent |-> folderId])>>)
      [] OTHER -> Throws(CollabError(env), <<Call("drive.files.list", [parent |-> folderId])>>)

\* google-docs.ts getInterview: drive.files.get, then getDocumentContent
getInterview(documentId, env) ==
    CASE env = "unconfigured" -> Throws(NotInitialized("Google clients"), <<>>)
      [] documentId = Undefined -> Throws(MissingParameter, <<>>)
      [] env = "ok" -> Returns(<<"interview">>,
                               <<Call("drive.files.get", [fileId |-> documentId]),
                                 Call("docs.documents.get", [documentId |-> documentId])>>)
      [] OTHER -> Throws(CollabError(env), <<Call("drive.files.get", [fileId |-> documentId])>>)

\* google-docs.ts listArticleIdeas
listArticleIdeas(folderId, env) ==
    CASE env = "unconfigured" -> Throws(NotInitialized("Google clients"), <<>>)
      [] env = "ok" -> Returns(<<"ideas">>, <<Call("drive.files.list", [parent |-> folderId])>>)
      [] OTHER -> Throws(CollabError(env), <<Call("drive.files.list", [parent |-> folderId])>>)

\* google-docs.ts getIdea
getIdea(documentId, env) ==
    CASE env = "unconfigured" -> Throws(NotInitialized("Google clients"), <<>>)
      [] documentId = Undefined -> Throws(MissingParameter, <<>>)
      [] env = "ok" -> Returns(<<"idea">>,
                               <<Call("drive.files.get", [fileId |-> documentId]),
                                 Call("docs.documents.get", [documentId |-> documentId])>>)
      [] OTHER -> Throws(CollabError(env), <<Call("drive.files.get", [fileId |-> documentId])>>)

\* ghost.ts getExistingArticles (the pages are one request here)
getExistingArticles(env) ==
    CASE env = "unconfigured" -> Throws(NotInitialized("Ghost client"), <<>>)
      [] env = "ok" -> Returns(<<"articles">>, <<Call("posts.browse", [filter |-> "status:[draft,published,scheduled]"])>>)
      [] OTHER -> Throws(CollabError(env), <<Call("posts.browse", [filter |-> "status:[draft,published,scheduled]"])>>)

\* ghost.ts searchExistingArticles: query.toLowerCase() after the fetch
searchExistingArticles(query, env) ==
    LET articles == getExistingArticles(env) IN
    CASE articles.threw -> articles
      [] query = Undefined -> Throws(TypeError, articles.calls)
      [] OTHER -> Returns(<<"matching articles">>, articles.calls)

\* ghost.ts checkArticleExists: generateSlug(title) after the fetch
checkArticleExists(title, env) ==
    LET articles == getExistingArticles(env) IN
    CASE articles.threw -> articles
      [] title = Undefined -> Throws(TypeError, articles.calls)
      [] OTHER -> Returns(<<"exactMatch, similarArticles">>, articles.calls)

\* metadata.ts generateSlug / generateMetaTitle start with title.toLowerCase()
\* resp. text.length: both throw a TypeError on undefined.
generateSlugThrows(title) == title = Undefined

\* Faulty variant: the post is written with the status the article carries.
createDraftArticleKeepsStatus(article, env) ==
    LET postData == [title  |-> article.title,
                     slug   |-> article.slug,
                     html   |-> article.html,
                     status |-> article.status]
    IN CASE env = "unconfigured" -> Throws(NotInitialized("Ghost client"), <<>>)
         [] env = "ok" -> Returns(<<"id, url">>, <<Call("posts.add", postData)>>)
         [] OTHER -> Throws(CollabError(env), <<Call("posts.add", postData)>>)

\* ghost.ts createDraftArticle: postData always carries status 'draft'
createDraftArticle(article, env) ==
    LET postData == [title  |-> article.title,
                     slug   |-> article.slug,
                     html   |-> article.html,
                     status |-> "draft"]
    IN CASE env = "unconfigured" -> Throws(NotInitialized("Ghost client"), <<>>)
         [] env = "ok" -> Returns(<<"id, url">>, <<Call("posts.add", postData)>>)
         [] OTHER -> Throws(CollabError(env), <<Call("posts.add", postData)>>)

\* research.ts searchWeb: no key -> [], any failure is caught -> []
searchWeb(query, maxResults, env) ==
    \* the request's query is `${query} wedding industry`
    LET request == [query |-> query, max_results |-> maxResults * 2]
    IN CASE env = "unconfigured" -> Returns(<<>>, <<>>)
         [] env = "ok" -> Returns(<<"results">>, <<Call("tavily.search", request)>>)
         [] OTHER -> Returns(<<>>, <<Call("tavily.search", request)>>)

\* research.ts researchTopic
researchTopic(topic, env) ==
    LET results == searchWeb(topic, 5, env) IN
    IF results.value = <<>>
    THEN Returns(<<"No research results available.">>, results.calls)
    ELSE Returns(<<"Research findings on ", topic>> \o results.value, results.calls)

----------------------------------------------------------------------------
(* executeTool (agent.ts:129-245) *)

\* JSON.stringify(x, null, 2): never the empty string
JSON(x) == <<"json:">> \o x

FolderId == "interviews-folder"
IdeasFolderId == "ideas-folder"

executeTool(name, input, env) ==
    CASE name = "list_interviews" ->
            LET r == listInterviews(FolderId, env) IN
            IF r.threw THEN r ELSE Returns(JSON(r.value), r.calls)
      [] name = "read_interview" ->
            LET r == getInterview(Get(input, "documentId"), env) IN
            IF r.threw THEN r ELSE Returns(JSON(r.value), r.calls)
      [] name = "list_articles" ->
            LET r == getExistingArticles(env)
                limit == OrDefault(Get(input, "limit"), "20")
            IN IF r.threw THEN r ELSE Returns(JSON(r.value \o <<"first", limit>>), r.calls)
      [] name = "search_articles" ->
            LET r == searchExistingArticles(Get(input, "query"), env) IN
            IF r.threw THEN r ELSE Returns(JSON(r.value), r.calls)
      [] name = "check_duplicate" ->
            LET r == checkArticleExists(Get(input, "title"), env) IN
            IF r.threw THEN r ELSE Returns(JSON(r.value), r.calls)
      [] name = "create_draft" ->
            IF generateSlugThrows(Get(input, "title"))
            THEN Throws(TypeError, <<>>)
            ELSE LET r == createDraftArticle(
                              [title |-> Get(input, "title"),
                               slug  |-> "slug-of-title",
                               html  |-> Get(input, "html"),
                               status |-> "draft"], env)
                 IN IF r.threw THEN r
                    ELSE Returns(JSON(<<"success", "Draft created: ",
                                        Get(input, "title")>>), r.calls)
      [] name = "web_search" ->
            LET r == searchWeb(Get(input, "query"),
                               OrDefault(Get(input, "maxResults"), 5), env)
            IN Returns(JSON(r.value), r.calls)
      [] name = "research_topic" ->
            researchTopic(Get(input, "topic"), env)
      [] name = "list_ideas" ->
            IF env = "unconfigured"
            THEN Returns(JSON(<<"error", "Ideas folder not configured">>), <<>>)
            ELSE LET r == listArticleIdeas(IdeasFolderId, env) IN
                 IF r.threw THEN r ELSE Returns(JSON(r.value), r.calls)
      [] name = "read_idea" ->
            LET r == getIdea(Get(input, "documentId"), env) IN
            IF r.threw THEN r ELSE Returns(JSON(r.value), r.calls)
      [] OTHER ->
            Returns(JSON(<<"error", "Unknown tool: ", name>>), <<>>)

----------------------------------------------------------------------------
(* The language model (client.messages.create), an external collaborator.  *)
(* A response is [stop_reason, content]; content is a list of text and     *)
(* tool_use blocks. Text and tool-use ids are unique to the call and the   *)
(* position that produced them, as the API's ids are.                      *)

StopReasons == {"tool_use", "end_turn", "max_tokens"}

TextBlock(n, i) ==
    [type |-> "text", text |-> <<"text-" \o ToString(n) \o "-" \o ToString(i)>>]

ToolUseBlock(n, i, name, input) ==
    [type |-> "tool_use", id |-> "toolu_" \o ToString(n) \o "_" \o ToString(i),
     name |-> name, input |-> input]

\* The value the model supplies for an input field, when it supplies one.
FieldValue(f) ==
    CASE f = "documentId" -> "doc-1"
      [] f = "query"      -> "pricing"
      [] f = "title"      -> "Pricing for Florists"
      [] f = "html"       -> "<p>body</p>"
      [] OTHER            -> "trends"

TextKind == [k |-> "text", name |-> "", input |-> <<>>]
ToolKind(name, fields) ==
    [k |-> "tool", name |-> name, input |-> [f \in fields |-> FieldValue(f)]]

\* Every tool call the model can make: a registered or an unregistered name,
\* with any subset of the tool's required input fields supplied.
ToolCalls ==
    UNION {{ToolKind(name, fields) : fields \in SUBSET Required(name)}
           : name \in ToolNames \cup {UnknownTool}}

\* The block kinds of the longer responses.
CommonKinds ==
    {TextKind, ToolKind("read_interview", {"documentId"}), ToolKind(UnknownTool, {})}

\* The default response: a line of text and one tool call.
DefaultKinds == <<TextKind, ToolKind("list_interviews", {})>>

VariedKinds ==
    {<<>>} \cup {<<k>> : k \in ToolCalls \cup {TextKind}}
           \cup UNION {[1..n -> CommonKinds] : n \in 2..MaxBlocks}

Content(kinds, n) ==
    [i \in 1..Len(kinds) |->
        IF kinds[i].k = "text" THEN TextBlock(n, i)
        ELSE ToolUseBlock(n, i, kinds[i].name, kinds[i].input)]

\* What the model may answer at call n of a run: anything at the varied call,
\* the default content (with any stop reason) at the others.
ModelResponses(n) ==
    {[stop_reason |-> sr, content |-> Content(kinds, n)] :
        sr \in StopReasons,
        kinds \in IF n = variedCall THEN VariedKinds ELSE {DefaultKinds}}

\* What the outside world may do during a tool execution after call n.
ToolEnvs(n) == IF n = variedCall THEN Envs ELSE {"ok"}

----------------------------------------------------------------------------
(* runContentAgent (agent.ts:251-319) *)

RECURSIVE Join(_, _)
\* Array.prototype.join
Join(strings, sep) ==
    IF strings = <<>> THEN <<>>
    ELSE IF Len(strings) = 1 THEN strings[1]
    ELSE strings[1] \o sep \o Join(Tail(strings), sep)

IsText(b) == b.type = "text"
IsToolUse(b) == b.type = "tool_use"

LimitNote == <<"\n\n(Note: Agent reached iteration limit)">>

\* Faulty variant: the ceiling test is off by one (<= for <).
WhileCondOffByOne(resp, iter) ==
    resp.stop_reason = "tool_use" /\ iter <= maxIterations

\* Faulty variant: the loop looks for tool_use blocks instead of the stop reason.
WhileCondByBlocks(resp, iter) ==
    /\ \E i \in 1..Len(resp.content) : IsToolUse(resp.content[i])
    /\ iter < maxIterations

\* agent.ts:270  the while condition
WhileCond(resp, iter) == resp.stop_reason = "tool_use" /\ iter < maxIterations

\* Faulty variant: the catch branch forgets is_error and reports the bare message.
ToolResultForUnflagged(block, r) ==
    [type |-> "tool_result", tool_use_id |-> block.id,
     content |-> IF r.threw THEN r.error.message ELSE r.value]

\* agent.ts:282-286 and 289-294  the tool_result block of one executed call
ToolResultFor(block, r) ==
    IF r.threw
    THEN [type |-> "tool_result", tool_use_id |-> block.id,
          content |-> <<"Error: ">> \o (IF r.error.inst THEN r.error.message
                                        ELSE <<"Unknown error">>),
          is_error |-> TRUE]
    ELSE [type |-> "tool_result", tool_use_id |-> block.id, content |-> r.value]

\* Faulty variant: the catch branch logs the error and pushes nothing.
PushToolResultUnlessThrown(results, block, r) ==
    IF r.threw THEN results ELSE Append(results, ToolResultFor(block, r))

\* agent.ts:280-295  try { push } catch { push }
PushToolResult(results, block, r) == Append(results, ToolResultFor(block, r))

\* Faulty variant: the note is added only past the ceiling (> for >=).
FinalResponsePastCeiling(resp, iter) ==
    LET textBlocks == SelectSeq(resp.content, IsText)
        finalResponse == Join([i \in 1..Len(textBlocks) |-> textBlocks[i].text], <<"\n">>)
    IN IF iter > maxIterations THEN finalResponse \o LimitNote ELSE finalResponse

\* Faulty variant: only the first text block is returned.
FinalResponseFirstBlock(resp, iter) ==
    LET textBlocks == SelectSeq(resp.content, IsText)
        finalResponse == IF textBlocks = <<>> THEN <<>> ELSE textBlocks[1].text
    IN IF iter >= maxIterations THEN finalResponse \o LimitNote ELSE finalResponse

\* agent.ts:310-318
FinalResponse(resp, iter) ==
    LET textBlocks == SelectSeq(resp.content, IsText)
        finalResponse == Join([i \in 1..Len(textBlocks) |-> textBlocks[i].text], <<"\n">>)
    IN IF iter >= maxIterations THEN finalResponse \o LimitNote ELSE finalResponse

Init ==
    /\ pc = "call"
    /\ messages = <<[role |-> "user", content |-> Request]>>
    /\ response = NoResponse
    /\ iterations = 0
    /\ toolResults = <<>>
    /\ cursor = 0
    /\ result = NoResult
    /\ modelCalls = 0
    /\ modelFailed = FALSE
    /\ toolBatches = 0
    /\ toolsExecuted = 0
    /\ lastExec = NoExec
    /\ variedCall \in 1..(maxIterations + 1)
    /\ given = Idle
    /\ returned = Idle
    /\ gen = Idle
    /\ store = <<>>

\* agent.ts:258-264 and 301-307: client.messages.create answers
ModelResponds ==
    /\ pc = "call"
    /\ \E r \in ModelResponses(modelCalls + 1) : response' = r
    /\ modelCalls' = modelCalls + 1
    /\ pc' = "test"
    /\ UNCHANGED <<messages, iterations, toolResults, cursor, result, modelFailed,
                   toolBatches, toolsExecuted, lastExec, variedCall, otherVars>>

\* Faulty variant: the failed call is caught and made again.
ModelFailsAndRetries ==
    /\ pc = "call"
    /\ modelCalls' = modelCalls + 1
    /\ modelFailed' = TRUE
    /\ UNCHANGED <<pc, messages, response, iterations, toolResults, cursor, result,
                   toolBatches, toolsExecuted, lastExec, variedCall, otherVars>>

\* client.messages.create throws: nothing in runContentAgent catches it
ModelFails ==
    /\ pc = "call"
    /\ modelCalls' = modelCalls + 1
    /\ modelFailed' = TRUE
    /\ pc' = "failed"
    /\ UNCHANGED <<messages, response, iterations, toolResults, cursor, result,
                   toolBatches, toolsExecuted, lastExec, variedCall, otherVars>>

\* agent.ts:270-275: the loop is entered
EnterToolUse ==
    /\ pc = "test"
    /\ WhileCond(response, iterations)
    /\ iterations' = iterations + 1
    /\ messages' = Append(messages, [role |-> "assistant", content |-> response.content])
    /\ toolResults' = <<>>
    /\ cursor' = 1
    /\ pc' = "tools"
    /\ UNCHANGED <<response, result, modelCalls, modelFailed, toolBatches,
                   toolsExecuted, lastExec, variedCall, otherVars>>

\* agent.ts:277-296: a tool_use block is executed
ExecuteToolBlock ==
    /\ pc = "tools"
    /\ cursor <= Len(response.content)
    /\ IsToolUse(response.content[cursor])
    /\ \E env \in ToolEnvs(modelCalls) :
          LET block == response.content[cursor]
              r == executeTool(block.name, block.input, env)
          IN /\ toolResults' = PushToolResult(toolResults, block, r)
             /\ lastExec' = [name |-> block.name, input |-> block.input,
                             calls |-> r.calls, threw |-> r.threw,
                             id |-> block.id]
    /\ toolsExecuted' = toolsExecuted + 1
    /\ cursor' = cursor + 1
    /\ UNCHANGED <<pc, messages, response, iterations, result, modelCalls,
                   modelFailed, toolBatches, variedCall, otherVars>>

\* agent.ts:277-278: any other block is passed over
SkipBlock ==
    /\ pc = "tools"
    /\ cursor <= Len(response.content)
    /\ ~IsToolUse(response.content[cursor])
    /\ cursor' = cursor + 1
    /\ UNCHANGED <<pc, messages, response, iterations, toolResults, result,
                   modelCalls, modelFailed, toolBatches, toolsExecuted, lastExec,
                   variedCall, otherVars>>

\* Faulty variant: the batch's results overwrite the assistant's turn.
SubmitResultsInPlace ==
    /\ pc = "tools"
    /\ cursor > Len(response.content)
    /\ messages' = [messages EXCEPT ![Len(messages)] =
                        [role |-> "user", content |-> toolResults]]
    /\ toolBatches' = toolBatches + 1
    /\ pc' = "call"
    /\ UNCHANGED <<response, iterations, toolResults, cursor, result, modelCalls,
                   modelFailed, toolsExecuted, lastExec, variedCall, otherVars>>

\* agent.ts:299: the batch's results go back as one user turn
SubmitResults ==
    /\ pc = "tools"
    /\ cursor > Len(response.content)
    /\ messages' = Append(messages, [role |-> "user", content |-> toolResults])
    /\ toolBatches' = toolBatches + 1
    /\ pc' = "call"
    /\ UNCHANGED <<response, iterations, toolResults, cursor, result, modelCalls,
                   modelFailed, toolsExecuted, lastExec, variedCall, otherVars>>

\* agent.ts:310-318: the loop is left and the text is returned
Finish ==
    /\ pc = "test"
    /\ ~WhileCond(response, iterations)
    /\ result' = FinalResponse(response, iterations)
    /\ pc' = "done"
    /\ UNCHANGED <<messages, response, iterations, toolResults, cursor, modelCalls,
                   modelFailed, toolBatches, toolsExecuted, lastExec, variedCall, otherVars>>

Next ==
    \/ ModelResponds
    \/ ModelFails
    \/ EnterToolUse
    \/ ExecuteToolBlock
    \/ SkipBlock
    \/ SubmitResults
    \/ Finish

Spec == Init /\ [][Next]_vars

----------------------------------------------------------------------------
(* Properties of the agent loop *)

IsError(b) == "is_error" \in DOMAIN b /\ b.is_error = TRUE

ToolUses(content) == SelectSeq(content, IsToolUse)

\* The positions of the tool-result turns of the conversation.
ResultTurns == {i \in 2..Len(messages) : messages[i].role = "user"}

\* Every tool_result block recorded so far that answers the call `id`.
ResultsFor(id) ==
    {toolResults[i] : i \in {j \in 1..Len(toolResults) : toolResults[j].tool_use_id = id}}
    \cup UNION {{messages[t].content[i] :
                    i \in {j \in 1..Len(messages[t].content) :
                              messages[t].content[j].tool_use_id = id}}
                : t \in ResultTurns}

Executed == lastExec.name # "none"

HasNote(text) == \E i \in 1..Len(text) : text[i] = LimitNote[1]

\* C1: at every model call after the first, the conversation ends with the
\* assistant turn that is the previous response followed by one user turn
\* holding exactly one tool_result per tool_use block of that turn, in the
\* order of the calls and each with its call's id.
C1_EveryCallAnswered ==
    (pc = "call" /\ modelCalls >= 1) =>
        LET n == Len(messages)
            a == messages[n - 1]
            u == messages[n]
            calls == ToolUses(a.content)
        IN /\ n >= 3
           /\ a.role = "assistant"
           /\ a.content = response.content
           /\ u.role = "user"
           /\ Len(u.content) = Len(calls)
           /\ \A i \in 1..Len(calls) :
                 /\ u.content[i].type = "tool_result"
                 /\ u.content[i].tool_use_id = calls[i].id

\* a second model call is due after a batch of two calls, one of which threw
C1_Witness ==
    /\ pc = "call"
    /\ modelCalls >= 1
    /\ Len(messages[Len(messages)].content) >= 2
    /\ \E i \in 1..Len(messages[Len(messages)].content) :
          IsError(messages[Len(messages)].content[i])

\* C2: when executeTool throws, the call gets one tool_result with is_error
\* set and a non-empty message, the calls after it in the batch are still
\* executed (every block before the cursor has its result), and the run does
\* not fail: only a model failure ends a run with an exception.
C2_ToolErrorBecomesResult ==
    /\ (Executed /\ lastExec.threw) =>
          /\ Cardinality(ResultsFor(lastExec.id)) = 1
          /\ \A b \in ResultsFor(lastExec.id) : IsError(b) /\ b.content # <<>>
    /\ pc = "tools" =>
          Len(toolResults) = Len(ToolUses(SubSeq(response.content, 1, cursor - 1)))
    /\ pc = "failed" => modelFailed

\* the model was called again after a batch whose first call threw and whose
\* second call was executed all the same
C2_Witness ==
    /\ pc = "test"
    /\ modelCalls >= 2
    /\ LET u == messages[Len(messages)].content
       IN /\ Len(u) >= 2
          /\ IsError(u[1])
          /\ ~IsError(u[2])

\* C3: a run calls the model at most maxIterations + 1 times and executes at
\* most maxIterations tool batches, whatever the model answers.
C3_BoundedCalls ==
    /\ modelCalls <= maxIterations + 1
    /\ toolBatches <= maxIterations
    /\ iterations <= maxIterations

\* a run that used every call it is allowed
C3_Witness ==
    pc = "done" /\ modelCalls = maxIterations + 1 /\ toolBatches = maxIterations

\* C4: a run that ends while the model is still requesting tools (so at the
\* ceiling) returns a text that contains the limit-reached note.
C4_CeilingNote ==
    (pc = "done" /\ response.stop_reason = "tool_use") => HasNote(result)

C4_Witness ==
    pc = "done" /\ response.stop_reason = "tool_use" /\ iterations = maxIterations

\* C5: a run that ends by a natural stop returns a text without the
\* limit-reached note, for every number of preceding tool rounds.
C5_NaturalStopNoNote ==
    (pc = "done" /\ response.stop_reason # "tool_use") => ~HasNote(result)

\* C6: once a model call has failed the run has ended with the exception:
\* no text is returned, the failed call was made once (calls = rounds + 1),
\* and every executed tool belongs to a round before the failure.
C6_ModelFailureIsFatal ==
    modelFailed =>
        /\ pc = "failed"
        /\ result = NoResult
        /\ modelCalls = iterations + 1
        /\ toolBatches = iterations

\* a model call inside the loop failed, after tools had run
C6_Witness ==
    modelFailed /\ pc = "failed" /\ modelCalls >= 2 /\ toolsExecuted >= 1

\* C7: a call of a name that is in no registry entry does not raise and gets
\* a tool_result with is_error set and a message naming the unknown tool.
C7_UnknownToolFlagged ==
    (Executed /\ lastExec.name \notin ToolNames) =>
        /\ ~lastExec.threw
        /\ \A b \in ResultsFor(lastExec.id) :
              /\ IsError(b)
              /\ \E i \in 1..Len(b.content) : b.content[i] = "Unknown tool: "

\* The input fields that reach a collaborator request.
MissingArgument(call) ==
    \E f \in DOMAIN call.arg \cap {"fileId", "documentId", "query", "title", "html"} :
        call.arg[f] = Undefined

\* C8: a call that omits a required field gets an error tool_result and no
\* collaborator is invoked with the missing value.
C8_MissingFieldRejected ==
    (Executed /\ Required(lastExec.name) \ DOMAIN lastExec.input # {}) =>
        /\ \A b \in ResultsFor(lastExec.id) : IsError(b)
        /\ \A i \in 1..Len(lastExec.calls) : ~MissingArgument(lastExec.calls[i])

\* C9: after a response, tools are executed exactly when its stop reason is
\* tool_use and the ceiling is not reached; otherwise the run is done in the
\* same step and none of the response's tool_use blocks is executed.
C9_StopReasonDecides ==
    [][ /\ pc = "test" =>
             IF response.stop_reason = "tool_use" /\ iterations < maxIterations
             THEN pc' = "tools"
             ELSE pc' = "done" /\ toolsExecuted' = toolsExecuted
        /\ toolsExecuted' # toolsExecuted =>
             /\ response.stop_reason = "tool_use"
             /\ IsToolUse(response.content[cursor])
        /\ pc' = "done" =>
             \A i \in 1..Len(response.content) :
                 IsToolUse(response.content[i]) =>
                     ResultsFor(response.content[i].id) = {}
      ]_vars

\* a response that carries tool_use blocks under another stop reason ended
\* the run
C9_Witness ==
    /\ pc = "done"
    /\ response.stop_reason = "max_tokens"
    /\ ToolUses(response.content) # <<>>
    /\ iterations < maxIterations

\* The text tokens of a returned string: what is left without the
\* separators and the note.
TextTokens(text) ==
    SelectSeq(text, LAMBDA t : t # "\n" /\ t # LimitNote[1])

\* Every token the conversation holds: the request, the text of the earlier
\* assistant turns and the content of the tool results.
ConversationTokens ==
    UNION {UNION {LET b == messages[t].content[i] IN
                    IF t = 1 THEN {b}
                    ELSE IF b.type = "text" THEN {b.text[j] : j \in 1..Len(b.text)}
                    ELSE IF b.type = "tool_result" THEN {b.content[j] : j \in 1..Len(b.content)}
                    ELSE {}
                  : i \in 1..Len(messages[t].content)}
           : t \in 1..Len(messages)}

\* C10: the returned text consists of the text blocks of the final response,
\* all of them, in order; nothing of the conversation before it is in it.
C10_FinalTextOnly ==
    pc = "done" =>
        /\ LET textBlocks == SelectSeq(response.content, IsText)
           IN TextTokens(result) = [i \in 1..Len(textBlocks) |-> textBlocks[i].text[1]]
        /\ \A i \in 1..Len(result) : result[i] \notin ConversationTokens

\* a final response with two text blocks, after a tool round
C10_Witness ==
    /\ pc = "done"
    /\ iterations >= 1
    /\ Len(SelectSeq(response.content, IsText)) >= 2

\* The turns come in the order the loop writes them: the request, then
\* assistant and user turns alternately.
TurnsAlternate ==
    /\ messages[1] = [role |-> "user", content |-> Request]
    /\ \A k \in 2..Len(messages) :
          messages[k].role = IF k % 2 = 0 THEN "assistant" ELSE "user"

\* A step that changes the conversation appends one turn to it.
AppendsOneTurn ==
    /\ Len(messages') = Len(messages) + 1
    /\ SubSeq(messages', 1, Len(messages)) = messages

\* C11: the conversation starts as a single user turn with the request and
\* is only ever appended to; the conversation the model sees at its n-th
\* call is the request followed by n-1 pairs of one assistant turn and one
\* user turn, so each call's conversation extends the previous one by
\* exactly one such pair.
C11_ConversationAppendOnly ==
    /\ [](TurnsAlternate /\ (pc = "call" => Len(messages) = 2 * modelCalls + 1))
    /\ [][messages' # messages => AppendsOneTurn]_vars

C11_Witness ==
    /\ pc = "call"
    /\ modelCalls = 2
    /\ Len(messages) = 5
    /\ messages[4].role = "assistant"
    /\ messages[5].role = "user"

----------------------------------------------------------------------------
(* Part 2.  Strings are sequences of one-character strings, so that the    *)
(* string operations of the code are computed character by character.      *)

\* String.prototype.toLowerCase on the ASCII letters
LowerOf ==
    [A |-> "a", B |-> "b", C |-> "c", D |-> "d", E |-> "e", F |-> "f",
     G |-> "g", H |-> "h", I |-> "i", J |-> "j", K |-> "k", L |-> "l",
     M |-> "m", N |-> "n", O |-> "o", P |-> "p", Q |-> "q", R |-> "r",
     S |-> "s", T |-> "t", U |-> "u", V |-> "v", W |-> "w", X |-> "x",
     Y |-> "y", Z |-> "z"]

UpperCase == DOMAIN LowerOf

LowerCase == {LowerOf[c] : c \in UpperCase}

Digits == {"0", "1", "2", "3", "4", "5", "6", "7", "8", "9"}

\* the regular expression classes \w and \s
WordChars == UpperCase \cup LowerCase \cup Digits \cup {"_"}

SpaceChars == {" ", "\t", "\n", "\r"}

LowerChar(c) == IF c \in UpperCase THEN LowerOf[c] ELSE c

toLowerCase(str) == [i \in 1..Len(str) |-> LowerChar(str[i])]

\* str.replace(/^[set]+/, '')
RECURSIVE StripLeft(_, _)
StripLeft(str, set) ==
    IF str # <<>> /\ Head(str) \in set THEN StripLeft(Tail(str), set) ELSE str

\* str.replace(/[set]+$/, '')
RECURSIVE StripRight(_, _)
StripRight(str, set) ==
    IF str # <<>> /\ str[Len(str)] \in set
    THEN StripRight(SubSeq(str, 1, Len(str) - 1), set)
    ELSE str

\* String.prototype.trim
trim(str) == StripRight(StripLeft(str, SpaceChars), SpaceChars)

\* str.replace(/[^set]/g, '')
RECURSIVE KeepOnly(_, _)
KeepOnly(str, set) ==
    IF str = <<>> THEN <<>>
    ELSE IF Head(str) \in set THEN <<Head(str)>> \o KeepOnly(Tail(str), set)
    ELSE KeepOnly(Tail(str), set)

\* str.replace(/[set]+/g, with): every maximal run becomes one copy of with
RECURSIVE ReplaceRuns(_, _, _)
ReplaceRuns(str, set, with) ==
    IF str = <<>> THEN <<>>
    ELSE IF Head(str) \in set
    THEN with \o ReplaceRuns(StripLeft(str, set), set, with)
    ELSE <<Head(str)>> \o ReplaceRuns(Tail(str), set, with)

\* String.prototype.startsWith and String.prototype.includes
StartsWith(str, prefix) ==
    /\ Len(prefix) <= Len(str)
    /\ SubSeq(str, 1, Len(prefix)) = prefix

Includes(str, part) ==
    \E i \in 0..(Len(str) - Len(part)) : SubSeq(str, i + 1, i + Len(part)) = part

\* utils: generateSlug
generateSlug(title) ==
    LET kept == KeepOnly(trim(toLowerCase(title)),
                         WordChars \cup SpaceChars \cup {"-"})
        dashed == ReplaceRuns(kept, SpaceChars \cup {"_", "-"}, <<"-">>)
    IN StripRight(StripLeft(dashed, {"-"}), {"-"})

\* All strings over an alphabet up to a length.
RECURSIVE StringsUpTo(_, _)
StringsUpTo(alphabet, n) ==
    IF n = 0 THEN {<<>>}
    ELSE LET shorter == StringsUpTo(alphabet, n - 1)
         IN shorter \cup {<<c>> \o str : c \in alphabet, str \in shorter}

----------------------------------------------------------------------------
(* checkArticleExists (services/ghost) over character strings               *)

MaxTitleLen == 3

\* The agent loop is not running.
AgentIdle ==
    /\ pc = "idle"
    /\ messages = <<>>
    /\ response = NoResponse
    /\ iterations = 0
    /\ toolResults = <<>>
    /\ cursor = 0
    /\ result = NoResult
    /\ modelCalls = 0
    /\ modelFailed = FALSE
    /\ toolBatches = 0
    /\ toolsExecuted = 0
    /\ lastExec = NoExec
    /\ variedCall = 1

\* Faulty variant: the titles are compared as they are written.
exactMatchCaseSensitive(articles, title) ==
    LET slug == generateSlug(title)
    IN \E i \in 1..Len(articles) :
          \/ articles[i].slug = slug
          \/ articles[i].title = title

\* ghost checkArticleExists, lines 62-66: articles.some(...)
exactMatch(articles, title) ==
    LET slug == generateSlug(title)
        lowerTitle == toLowerCase(title)
    IN \E i \in 1..Len(articles) :
          \/ articles[i].slug = slug
          \/ toLowerCase(articles[i].title) = lowerTitle

\* ghost checkArticleExists, lines 69-73: articles.filter(...)
similarArticles(articles, title) ==
    LET lowerTitle == toLowerCase(title)
        Similar(article) ==
            \/ Includes(toLowerCase(article.title), lowerTitle)
            \/ Includes(lowerTitle, toLowerCase(article.title))
    IN SelectSeq(articles, Similar)

\* what checkArticleExists resolves to
DuplicateCheckResult(articles, title) ==
    [exactMatch |-> exactMatch(articles, title),
     similarArticles |-> similarArticles(articles, title)]

\* Candidate titles: letters of both cases, white space, a separator and
\* punctuation that generateSlug drops.
TitleAlphabet == {"a", "B", "b", " ", "-", "!"}

Titles == StringsUpTo(TitleAlphabet, MaxTitleLen)

\* Titles of the posts already in the store.
ExistingTitles ==
    {<<"a", "b">>, <<"A", " ", "B">>, <<"b", "!">>, <<"B">>, <<"a", "-", "b">>,
     <<"b", " ", "a">>}

\* A post's slug is the one the store derives from its title or one an
\* editor typed.
ExistingArticles ==
    UNION {{[title |-> t, slug |-> sl] :
                sl \in {generateSlug(t), <<"a", "-", "b">>, <<"o", "l", "d">>}} :
           t \in ExistingTitles}

FirstArticle == [title |-> <<"a", "!">>, slug |-> <<"f", "i", "r", "s", "t">>]

ArticleLists ==
    {<<>>} \cup {<<a>> : a \in ExistingArticles}
           \cup {<<FirstArticle, a>> : a \in ExistingArticles}

InitDup ==
    /\ AgentIdle
    /\ \E t \in Titles, as \in ArticleLists, g \in {"ok", "throw"} :
          given = [op |-> "checkArticleExists", title |-> t, articles |-> as,
                   ghost |-> g]
    /\ returned = Idle
    /\ gen = Idle
    /\ store = <<>>

\* ghost checkArticleExists, lines 57-77
CheckArticleExists ==
    /\ returned = Idle
    /\ given.ghost = "ok"
    /\ returned' = [threw |-> FALSE,
                    value |-> DuplicateCheckResult(given.articles, given.title)]
    /\ UNCHANGED <<agentVars, given, gen, store>>

\* ghost getExistingArticles, lines 43-47: the API error is rethrown
CheckArticleExistsFails ==
    /\ returned = Idle
    /\ given.ghost = "throw"
    /\ returned' = [threw |-> TRUE, value |-> <<>>]
    /\ UNCHANGED <<agentVars, given, gen, store>>

NextDup ==
    \/ CheckArticleExists
    \/ CheckArticleExistsFails

SpecDup == InitDup /\ [][NextDup]_vars

\* C12: whenever checkArticleExists reports, exactMatch is true exactly when
\* some existing article has the slug generateSlug(title) or a title equal to
\* the candidate's once both are lower-cased.
C12_ExactMatchIffSlugOrTitle ==
    (returned # Idle /\ ~returned.threw) =>
        (returned.value.exactMatch <=>
            \E i \in DOMAIN given.articles :
                LET a == given.articles[i]
                IN \/ a.slug = generateSlug(given.title)
                   \/ toLowerCase(a.title) = toLowerCase(given.title))

\* a match by slug alone, and a match by title alone that needs lower-casing
C12_Witness ==
    /\ returned # Idle
    /\ ~returned.threw
    /\ returned.value.exactMatch
    /\ given.title = <<"B", " ", "a">>
    /\ Len(given.articles) = 2
    /\ given.articles[2].slug = <<"o", "l", "d">>
    /\ given.articles[2].title = <<"b", " ", "a">>

----------------------------------------------------------------------------
(* The generators (generators/interview-profile, insight-article,          *)
(* theme-roundup) and the agent's create_draft tool, as the paths on which *)
(* an article reaches the publishing store.                                *)

Generators == {"interview", "insight", "seo", "roundup"}

Paths == Generators \cup {"tool"}

\* the Article type's status values
Statuses == {"draft", "published"}

\* The collaborator whose request fails in the run, if any.
Failures == {"none", "ghost.browse", "ai", "ghost.add"}

CandidateAlphabet == {"a", "B", " "}

Candidates == StringsUpTo(CandidateAlphabet, MaxTitleLen)

NoArticle == [title |-> <<>>, slug |-> <<>>, html |-> "", status |-> "none"]

\* ToBoolean of an object: every object is truthy, whatever its fields hold
Truthy(object) == TRUE

\* the posts that the successful posts.add requests of r have written
Written(r) ==
    IF r.threw THEN <<>>
    ELSE LET adds == SelectSeq(r.calls, LAMBDA c : c.api = "posts.add")
         IN [i \in 1..Len(adds) |-> adds[i].arg]

\* the generators' catch: { success: false, message: `Failed to ...` }
Failed == [success |-> FALSE, message |-> "Failed to generate", note |-> FALSE]

InitGen ==
    /\ AgentIdle
    /\ \E p \in Paths, c \in Candidates, as \in ArticleLists, st \in Statuses,
          d \in BOOLEAN, k \in BOOLEAN, f \in Failures :
          /\ p # "interview" => ~k
          /\ p = "tool" => (~d /\ st = "draft" /\ f \in {"none", "ghost.add"})
          /\ given = [op |-> "generate", path |-> p, candidate |-> c,
                      articles |-> as, status |-> st, dryRun |-> d,
                      cached |-> k, fails |-> f]
          /\ gen = [pc |-> CASE p = "interview" -> "generate"
                             [] p = "tool" -> "create"
                             [] OTHER -> "check",
                    article |-> NoArticle, note |-> FALSE, cache |-> k]
    /\ returned = Idle
    /\ store = <<>>

\* the article the language model's answer is parsed into, titled after the
\* candidate; a cached article is the one an earlier run generated
GeneratedArticle ==
    [title |-> given.candidate, slug |-> generateSlug(given.candidate),
     html |-> "html", status |-> given.status]

\* if (options.dryRun) { return the preview }: interview-profile.ts:92,
\* insight-article.ts:81 and 175, theme-roundup 88
DryRunIgnored == FALSE

DryRunReturns == given.dryRun

\* interview-profile.ts:50-113, insight-article.ts:60-84 and 153-178,
\* theme-roundup 71-92: the article is taken from the cache or generated,
\* and a dry run returns here
GenerateArticle ==
    /\ gen.pc = "generate"
    /\ LET fromCache == given.path = "interview" /\ gen.cache /\ ~given.dryRun
           cache == gen.cache \/ given.path = "interview"
       IN IF ~fromCache /\ given.fails = "ai"
          THEN /\ returned' = Failed
               /\ gen' = [gen EXCEPT !.pc = "done"]
          ELSE IF DryRunReturns
          THEN /\ returned' = [success |-> TRUE, message |-> "dry run",
                               note |-> FALSE]
               /\ gen' = [gen EXCEPT !.pc = "done", !.article = GeneratedArticle,
                                     !.cache = cache]
          ELSE /\ returned' = returned
               /\ gen' = [gen EXCEPT !.pc = IF given.path = "interview"
                                            THEN "check" ELSE "create",
                                     !.article = GeneratedArticle,
                                     !.cache = cache]
    /\ UNCHANGED <<agentVars, given, store>>

\* interview-profile.ts:117-131, insight-article.ts:52-58 and 145-151,
\* theme-roundup 63-69
CheckDuplicates ==
    /\ gen.pc = "check"
    /\ IF given.fails = "ghost.browse"
       THEN /\ returned' = Failed
            /\ gen' = [gen EXCEPT !.pc = "done"]
       ELSE LET check == DuplicateCheckResult(given.articles, given.candidate)
            IN IF given.path = "interview"
               THEN IF check.exactMatch
                    THEN /\ returned' = [success |-> FALSE,
                                         message |-> "exact title already exists",
                                         note |-> FALSE]
                         /\ gen' = [gen EXCEPT !.pc = "done"]
                    ELSE /\ returned' = returned
                         /\ gen' = [gen EXCEPT !.pc = "create",
                                       !.note = (check.similarArticles # <<>>)]
               ELSE \* const exists = await checkArticleExists(...); if (exists)
                    IF Truthy(check)
                    THEN /\ returned' = [success |-> FALSE,
                                         message |-> "may already exist",
                                         note |-> FALSE]
                         /\ gen' = [gen EXCEPT !.pc = "done"]
                    ELSE /\ returned' = returned
                         /\ gen' = [gen EXCEPT !.pc = "generate"]
    /\ UNCHANGED <<agentVars, given, store>>

\* interview-profile.ts:135-143, insight-article.ts:88-96 and 182-190,
\* theme-roundup 95-103, agent.ts:183-204
CreateDraft ==
    /\ gen.pc = "create"
    /\ LET env == IF given.fails = "ghost.add" THEN "throw" ELSE "ok"
           r == IF given.path = "tool"
                THEN executeTool("create_draft",
                                 [title |-> given.candidate, html |-> "html"], env)
                ELSE createDraftArticle(gen.article, env)
       IN /\ store' = store \o Written(r)
          /\ returned' = IF r.threw THEN Failed
                         ELSE [success |-> TRUE, message |-> "Created draft",
                               note |-> gen.note]
    /\ gen' = [gen EXCEPT !.pc = "done"]
    /\ UNCHANGED <<agentVars, given>>

NextGen ==
    \/ GenerateArticle
    \/ CheckDuplicates
    \/ CreateDraft

SpecGen == InitGen /\ [][NextGen]_vars

\* The candidate has similar articles and no exact match.
SimilarOnly ==
    /\ ~exactMatch(given.articles, given.candidate)
    /\ similarArticles(given.articles, given.candidate) # <<>>

\* C13: on each of the four generation paths, a candidate with similar
\* articles only and no exact match is drafted when the run is not a dry run
\* and no collaborator fails: the run succeeds and one post is written.
C13_SimilarNeverBlocks ==
    (/\ given.op = "generate"
     /\ given.path \in Generators
     /\ gen.pc = "done"
     /\ ~given.dryRun
     /\ given.fails = "none"
     /\ SimilarOnly)
    => (returned.success /\ Len(store) = 1)

\* C20: every post written to the publishing store has status 'draft', on
\* the generators' paths and on the agent's create_draft path, whatever
\* status the article object carries.
C20_OnlyDraftsWritten ==
    \A i \in 1..Len(store) : store[i].status = "draft"

\* an article that carries 'published' is written by a generator
C20_Witness ==
    /\ given.op = "generate"
    /\ gen.pc = "done"
    /\ Len(store) = 1
    /\ given.path = "interview"
    /\ gen.article.status = "published"

----------------------------------------------------------------------------
(* isTopicAlreadyCovered and extractKeyPhrases (the daily scheduler)        *)

MaxTopicWords == 5

\* extractKeyPhrases: the fixed vocabulary
keyTerms ==
    << <<"i", "n", "s", "t", "a", "g", "r", "a", "m">>,
       <<"t", "i", "k", "t", "o", "k">>,
       <<"s", "o", "c", "i", "a", "l", " ", "m", "e", "d", "i", "a">>,
       <<"m", "a", "r", "k", "e", "t", "i", "n", "g">>,
       <<"p", "r", "i", "c", "i", "n", "g">>,
       <<"c", "l", "i", "e", "n", "t", " ", "e", "x", "p", "e", "r", "i", "e", "n", "c", "e">>,
       <<"v", "e", "n", "d", "o", "r", " ", "r", "e", "l", "a", "t", "i", "o", "n", "s", "h", "i", "p", "s">>,
       <<"w", "e", "d", "d", "i", "n", "g", " ", "p", "h", "o", "t", "o", "g", "r", "a", "p", "h", "y">>,
       <<"w", "e", "d", "d", "i", "n", "g", " ", "p", "l", "a", "n", "n", "e", "r">>,
       <<"f", "l", "o", "r", "i", "s", "t">>,
       <<"v", "e", "n", "u", "e">>,
       <<"v", "i", "d", "e", "o", "g", "r", "a", "p", "h", "y">>,
       <<"c", "a", "t", "e", "r", "i", "n", "g">>,
       <<"r", "e", "f", "e", "r", "r", "a", "l", "s">>,
       <<"b", "o", "o", "k", "i", "n", "g">>,
       <<"l", "e", "a", "d", "s">>,
       <<"s", "e", "o">>,
       <<"e", "m", "a", "i", "l", " ", "m", "a", "r", "k", "e", "t", "i", "n", "g">>,
       <<"p", "o", "r", "t", "f", "o", "l", "i", "o">>,
       <<"b", "r", "a", "n", "d", "i", "n", "g">>,
       <<"n", "e", "t", "w", "o", "r", "k", "i", "n", "g">>,
       <<"c", "o", "l", "l", "a", "b", "o", "r", "a", "t", "i", "o", "n">>,
       <<"t", "r", "e", "n", "d", "s">>,
       <<"g", "e", "n", " ", "z">>,
       <<"m", "i", "l", "l", "e", "n", "n", "i", "a", "l">>,
       <<"a", "i", " ", "t", "o", "o", "l", "s">>,
       <<"a", "u", "t", "o", "m", "a", "t", "i", "o", "n">>,
       <<"s", "y", "s", "t", "e", "m", "s">> >>

\* extractKeyPhrases: the key terms the text includes, in the list's order
extractKeyPhrases(text) ==
    SelectSeq(keyTerms, LAMBDA term : Includes(text, term))

\* tp === phrase || tp.includes(phrase) || phrase.includes(tp)
PhraseMatches(phrase, tp) ==
    \/ tp = phrase
    \/ Includes(tp, phrase)
    \/ Includes(phrase, tp)

\* topicKeyPhrases.filter(phrase => titleKeyPhrases.some(...))
matchingPhrases(topicKeyPhrases, titleKeyPhrases) ==
    SelectSeq(topicKeyPhrases,
              LAMBDA phrase : \E j \in 1..Len(titleKeyPhrases) :
                                 PhraseMatches(phrase, titleKeyPhrases[j]))

\* the characters of str before its first white space
RECURSIVE FirstWord(_)
FirstWord(str) ==
    IF str = <<>> \/ Head(str) \in SpaceChars THEN <<>>
    ELSE <<Head(str)>> \o FirstWord(Tail(str))

\* str.split(/\s+/)
RECURSIVE split(_)
split(str) ==
    LET word == FirstWord(str)
        rest == SubSeq(str, Len(word) + 1, Len(str))
    IN IF rest = <<>> THEN <<word>>
       ELSE <<word>> \o split(StripLeft(rest, SpaceChars))

\* text.split(/\s+/).filter(w => w.length > 4)
LongWords(text) == SelectSeq(split(text), LAMBDA w : Len(w) > 4)

\* topicWords.filter(w => titleWords.includes(w)).length
wordMatches(topicWords, titleWords) ==
    Len(SelectSeq(topicWords,
                  LAMBDA w : \E j \in 1..Len(titleWords) : titleWords[j] = w))

\* Faulty variant: three matching key phrases are asked for.
EnoughPhrasesThree(matching) == Len(matching) >= 3

\* matchingPhrases.length >= 2
EnoughPhrases(matching) == Len(matching) >= 2

\* Faulty variant: a ratio of exactly 0.6 triggers as well.
WordOverlapReaches(matches, words) ==
    words > 0 /\ 5 * matches >= 3 * words

\* topicWords.length > 0 && wordMatches / topicWords.length > 0.6
\* (3/5 and 0.6 are the same double, so the test is 5 * matches > 3 * words)
WordOverlapExceeds(matches, words) ==
    words > 0 /\ 5 * matches > 3 * words

\* the body of the loop over existingArticles, from the i-th article on
RECURSIVE CoveredFrom(_, _, _)
CoveredFrom(topicLower, existingArticles, i) ==
    IF i > Len(existingArticles) THEN FALSE
    ELSE LET titleLower == toLowerCase(existingArticles[i].title)
             matching == matchingPhrases(extractKeyPhrases(topicLower),
                                         extractKeyPhrases(titleLower))
             topicWords == LongWords(topicLower)
             titleWords == LongWords(titleLower)
         IN IF EnoughPhrases(matching) THEN TRUE
            ELSE IF WordOverlapExceeds(wordMatches(topicWords, titleWords),
                                       Len(topicWords))
            THEN TRUE
            ELSE CoveredFrom(topicLower, existingArticles, i + 1)

isTopicAlreadyCovered(topic, existingArticles) ==
    CoveredFrom(toLowerCase(topic), existingArticles, 1)

\* words.join(' ')
RECURSIVE JoinWords(_)
JoinWords(words) ==
    IF words = <<>> THEN <<>>
    ELSE IF Len(words) = 1 THEN words[1]
    ELSE words[1] \o <<" ">> \o JoinWords(Tail(words))

\* The words candidate topics are made of: a short key term, a long word
\* that is part of a two-word key term, and a long key term.
TopicVocabulary ==
    {<<"S", "E", "O">>, <<"e", "m", "a", "i", "l">>, <<"m", "a", "r", "k", "e", "t", "i", "n", "g">>}

Topics == {JoinWords(ws) : ws \in StringsUpTo(TopicVocabulary, MaxTopicWords)}

\* Titles of the existing articles.
CoveredTitles ==
    {<<"m", "a", "r", "k", "e", "t", "i", "n", "g">>,
     <<"E", "m", "a", "i", "l", " ", "M", "a", "r", "k", "e", "t", "i", "n", "g">>,
     <<"s", "e", "o", " ", "m", "a", "r", "k", "e", "t", "i", "n", "g">>,
     <<"e", "m", "a", "i", "l">>,
     <<"S", "E", "O">>,
     <<"S", "e", "o", "u", "l", " ", "v", "e", "n", "u", "e">>}

OtherArticle == [title |-> <<"V", "e", "n", "u", "e", " ", "t", "i", "p", "s">>]

CoveredLists ==
    {<<>>} \cup {<<[title |-> t]>> : t \in CoveredTitles}
           \cup {<<OtherArticle, [title |-> t]>> : t \in CoveredTitles}

InitTopic ==
    /\ AgentIdle
    /\ \E t \in Topics, as \in CoveredLists :
          given = [op |-> "isTopicAlreadyCovered", topic |-> t, articles |-> as]
    /\ returned = Idle
    /\ gen = Idle
    /\ store = <<>>

IsTopicAlreadyCovered ==
    /\ returned = Idle
    /\ returned' = [value |-> isTopicAlreadyCovered(given.topic, given.articles)]
    /\ UNCHANGED <<agentVars, given, gen, store>>

NextTopic == IsTopicAlreadyCovered

SpecTopic == InitTopic /\ [][NextTopic]_vars

\* isTopicAlreadyCovered has returned.
TopicDecided == given.op = "isTopicAlreadyCovered" /\ returned # Idle

TopicLower == toLowerCase(given.topic)

TitleLower(i) == toLowerCase(given.articles[i].title)

\* How many of the topic's key phrases match one of the i-th title's.
PhrasesMatching(i) ==
    Len(matchingPhrases(extractKeyPhrases(TopicLower),
                        extractKeyPhrases(TitleLower(i))))

\* The topic's words longer than 4 characters, and how many of them occur
\* among the i-th title's.
LongTopicWords == Len(LongWords(TopicLower))

LongWordsFound(i) == wordMatches(LongWords(TopicLower), LongWords(TitleLower(i)))

\* C14: isTopicAlreadyCovered returns true exactly when some title has at
\* least 2 matching key phrases with the topic, or strictly more than 0.6 of
\* the topic's long words occur among the title's long words; a ratio of
\* exactly 0.6, and a topic without long words, do not trigger.
C14_CoveredIffPhrasesOrOverlap ==
    TopicDecided =>
        (returned.value <=>
            \E i \in 1..Len(given.articles) :
                \/ PhrasesMatching(i) >= 2
                \/ /\ LongTopicWords > 0
                   /\ 5 * LongWordsFound(i) > 3 * LongTopicWords)

\* three of the topic's five long words occur in the title: exactly 0.6
C14_Witness ==
    /\ TopicDecided
    /\ ~returned.value
    /\ LongTopicWords = 5
    /\ \E i \in 1..Len(given.articles) : LongWordsFound(i) = 3

\* The fixed key terms a text includes.
TermsIn(text) ==
    {keyTerms[k] : k \in {k \in 1..Len(keyTerms) : Includes(text, keyTerms[k])}}

\* The fixed key terms found both in the topic and in the i-th title.
SharedKeyTerms(i) == TermsIn(TopicLower) \cap TermsIn(TitleLower(i))

\* No key term of the topic is part of, or has as a part, another key term
\* of the i-th title.
NoTermWithinTerm(i) ==
    \A a \in TermsIn(TopicLower) :
        \A b \in TermsIn(TitleLower(i)) \ {a} :
            ~Includes(a, b) /\ ~Includes(b, a)

----------------------------------------------------------------------------
(* parseArticleResponse (services/ai): the regular expressions of the      *)
(* parser, each matched character by character the way the engine does:    *)
(* leftmost match, greedy quantifiers giving back one character at a time. *)

\* the character at index i, or "" past either end
At(text, i) == IF i \in 1..Len(text) THEN text[i] ELSE ""

Min(set) == CHOOSE x \in set : \A y \in set : x <= y

Max(set) == CHOOSE x \in set : \A y \in set : x >= y

\* the literal lit stands at index i / stands there in either case (flag i)
MatchAt(text, i, lit) ==
    /\ i >= 1
    /\ i + Len(lit) - 1 <= Len(text)
    /\ SubSeq(text, i, i + Len(lit) - 1) = lit

MatchAtI(text, i, lit) ==
    /\ i >= 1
    /\ i + Len(lit) - 1 <= Len(text)
    /\ toLowerCase(SubSeq(text, i, i + Len(lit) - 1)) = lit

\* the first index from `from` on where lit stands, or 0
IndexOf(text, lit, from) ==
    LET at == {i \in from..Len(text) : MatchAt(text, i, lit)}
    IN IF at = {} THEN 0 ELSE Min(at)

\* the first index from i on whose character is not in set (a greedy [set]*)
RunEnd(text, i, set) ==
    LET out == {j \in i..Len(text) : text[j] \notin set}
    IN IF out = {} THEN Len(text) + 1 ELSE Min(out)

\* the first index from i on whose character is in set, or past the end
\* (a greedy [^set]*)
RunEndNot(text, i, set) ==
    LET in == {j \in i..Len(text) : text[j] \in set}
    IN IF in = {} THEN Len(text) + 1 ELSE Min(in)

\* the result of String.prototype.match: found, and the group captured
NoMatch == [found |-> FALSE, group |-> <<>>]

Matched(group) == [found |-> TRUE, group |-> group]

Quotes == {"\"", "'"}

\* the characters "." does not take
LineEnds == {"\n", "\r"}

\* \s*["']?([^"'\n]+) from index q: where the group starts, or 0.  The white
\* space is taken greedily and given back until the group has a character.
ValueStart(text, q) ==
    LET wsEnd == RunEnd(text, q, SpaceChars)
        Value(i) == At(text, i) # "" /\ At(text, i) \notin Quotes \cup {"\n"}
        starts == {r \in q..wsEnd : Value(r)} \cup
                  (IF At(text, wsEnd) \in Quotes /\ Value(wsEnd + 1)
                   THEN {wsEnd + 1} ELSE {})
    IN IF starts = {} THEN 0 ELSE Max(starts)

\* the group ([^"'\n]+) that starts at index from
ValueFrom(text, from) ==
    SubSeq(text, from, RunEndNot(text, from, Quotes \cup {"\n"}) - 1)

\* /label\s*["']?([^"'\n]+)["']?/i for a literal label
MatchLabel(text, label) ==
    LET at == {p \in 1..Len(text) :
                  /\ MatchAtI(text, p, label)
                  /\ ValueStart(text, p + Len(label)) # 0}
    IN IF at = {} THEN NoMatch
       ELSE Matched(ValueFrom(text, ValueStart(text, Min(at) + Len(label))))

\* [:\*]*\*\* from index q: the indices where the value may start, the
\* greedy run giving back characters until two asterisks follow it
AfterBoldEnd(text, q) ==
    LET runEnd == RunEnd(text, q, {":", "*"})
    IN {k + 2 : k \in {k \in q..(runEnd - 2) : MatchAt(text, k, <<"*", "*">>)}}

\* /\*\*label[:\*]*\*\*\s*["']?([^"'\n]+)["']?/i for a literal label
MatchBoldLabel(text, label) ==
    LET Starts(p) == {q \in AfterBoldEnd(text, p + 2 + Len(label)) :
                         ValueStart(text, q) # 0}
        at == {p \in 1..Len(text) :
                  /\ MatchAtI(text, p, <<"*", "*">> \o label)
                  /\ Starts(p) # {}}
    IN IF at = {} THEN NoMatch
       ELSE Matched(ValueFrom(text, ValueStart(text, Max(Starts(Min(at))))))

\* \s*(.+) from index q, of which the white space has at least `least`
\* characters: where the group starts, or 0
RestStart(text, q, least) ==
    LET wsEnd == RunEnd(text, q, SpaceChars)
        starts == {r \in (q + least)..wsEnd :
                      At(text, r) # "" /\ At(text, r) \notin LineEnds}
    IN IF starts = {} THEN 0 ELSE Max(starts)

\* the group (.+) that starts at index from: the rest of the line
RestFrom(text, from) ==
    SubSeq(text, from, RunEndNot(text, from, LineEnds) - 1)

\* /^#\s+(.+)$/m
MatchHeadingLine(text) ==
    LET at == {p \in 1..Len(text) :
                  /\ p = 1 \/ text[p - 1] \in LineEnds
                  /\ text[p] = "#"
                  /\ RestStart(text, p + 1, 1) # 0}
    IN IF at = {} THEN NoMatch
       ELSE Matched(RestFrom(text, RestStart(text, Min(at) + 1, 1)))

\* /Tags?:\s*(.+)/i
MatchTags(text) ==
    LET After(p) == IF MatchAtI(text, p, <<"t", "a", "g", "s", ":">>) THEN p + 5
                    ELSE IF MatchAtI(text, p, <<"t", "a", "g", ":">>) THEN p + 4
                    ELSE 0
        at == {p \in 1..Len(text) :
                  After(p) # 0 /\ RestStart(text, After(p), 0) # 0}
    IN IF at = {} THEN NoMatch
       ELSE Matched(RestFrom(text, RestStart(text, After(Min(at)), 0)))

\* /<tag[^>]*>(.*?)<\/tag>/i for tag h1 or h2, given as <<"h", "1">>
MatchElement(html, tag) ==
    LET open == <<"<">> \o tag
        close == <<"<", "/">> \o tag \o <<">">>
        Gt(p) == RunEndNot(html, p + Len(open), {">"})
        CloseAt(p) ==
            LET ends == {e \in (Gt(p) + 1)..Len(html) : MatchAtI(html, e, close)}
            IN IF Gt(p) > Len(html) \/ ends = {} THEN 0
               ELSE IF \E j \in (Gt(p) + 1)..(Min(ends) - 1) : html[j] \in LineEnds
               THEN 0
               ELSE Min(ends)
        at == {p \in 1..Len(html) : MatchAtI(html, p, open) /\ CloseAt(p) # 0}
    IN IF at = {} THEN NoMatch
       ELSE Matched(SubSeq(html, Gt(Min(at)) + 1, CloseAt(Min(at)) - 1))

\* /\*\*([A-Z][^*\n]{10,80})\*\*/
MatchBoldPhrase(text) ==
    LET RunLen(p) == RunEndNot(text, p + 3, {"*", "\n"}) - (p + 3)
        at == {p \in 1..Len(text) :
                  /\ MatchAt(text, p, <<"*", "*">>)
                  /\ At(text, p + 2) \in UpperCase
                  /\ RunLen(p) >= 10
                  /\ RunLen(p) <= 80
                  /\ MatchAt(text, p + 3 + RunLen(p), <<"*", "*">>)}
    IN IF at = {} THEN NoMatch
       ELSE Matched(SubSeq(text, Min(at) + 2, Min(at) + 2 + RunLen(Min(at))))

\* The grave accent, which a string of this notation cannot hold.
Backtick == "backtick"

\* the code fence: three grave accents
Fence == <<Backtick, Backtick, Backtick>>

\* /(fence)html\s*([\s\S]*?)(fence)/
MatchFencedHtml(text) ==
    LET p == IndexOf(text, Fence \o <<"h", "t", "m", "l">>, 1)
        from == RunEnd(text, p + 7, SpaceChars)
        to == IndexOf(text, Fence, from)
    IN IF p = 0 \/ to = 0 THEN NoMatch
       ELSE Matched(SubSeq(text, from, to - 1))

\* /<[^>]+>[\s\S]*<\/[^>]+>/: from the first tag to the last closing tag;
\* the group is the whole match
MatchDirectHtml(text) ==
    LET Gt(i) == RunEndNot(text, i + 1, {">"})
        IsTag(i) == Gt(i) <= Len(text) /\ Gt(i) >= i + 2
        Closes(from) == {k \in from..Len(text) :
                            /\ MatchAt(text, k, <<"<", "/">>)
                            /\ Gt(k + 1) <= Len(text)
                            /\ Gt(k + 1) >= k + 3}
        at == {i \in 1..Len(text) :
                  text[i] = "<" /\ IsTag(i) /\ Closes(Gt(i) + 1) # {}}
    IN IF at = {} THEN NoMatch
       ELSE LET i == Min(at)
                k == Max(Closes(Gt(i) + 1))
            IN Matched(SubSeq(text, i, Gt(k + 1)))

\* str.replace(/pattern/g, with) for a literal pattern
RECURSIVE ReplaceAll(_, _, _)
ReplaceAll(str, pattern, with) ==
    IF str = <<>> THEN <<>>
    ELSE IF StartsWith(str, pattern)
    THEN with \o ReplaceAll(SubSeq(str, Len(pattern) + 1, Len(str)), pattern, with)
    ELSE <<Head(str)>> \o ReplaceAll(Tail(str), pattern, with)

\* str.replace(/<[^>]*>/g, '')
RECURSIVE StripTags(_)
StripTags(str) ==
    IF str = <<>> THEN <<>>
    ELSE IF Head(str) = "<" /\ RunEndNot(str, 2, {">"}) <= Len(str)
    THEN StripTags(SubSeq(str, RunEndNot(str, 2, {">"}) + 1, Len(str)))
    ELSE <<Head(str)>> \o StripTags(Tail(str))

\* str.split(',')
RECURSIVE SplitOnComma(_)
SplitOnComma(str) ==
    LET to == RunEndNot(str, 1, {","})
    IN IF to > Len(str) THEN <<str>>
       ELSE <<SubSeq(str, 1, to - 1)>> \o SplitOnComma(SubSeq(str, to + 1, Len(str)))

\* str.replace(/^\*+|\*+$/g, '')
StripStars(str) == StripRight(StripLeft(str, {"*"}), {"*"})

\* str.replace(/^["']|["']$/g, ''): one quote at either end
StripOneQuote(str) ==
    LET left == IF str # <<>> /\ Head(str) \in Quotes THEN Tail(str) ELSE str
    IN IF left # <<>> /\ left[Len(left)] \in Quotes
       THEN SubSeq(left, 1, Len(left) - 1)
       ELSE left

\* str.replace(/^["'\*]+|["'\*]+$/g, '')
StripWrapping(str) ==
    StripRight(StripLeft(str, Quotes \cup {"*"}), Quotes \cup {"*"})

\* lines 471-478: the clean-up of the extracted HTML, one replace after
\* the other
Unescape(html) ==
    LET step1 == ReplaceAll(html, <<"\\", "\"">>, <<"\"">>)
        step2 == ReplaceAll(step1, <<"\\", "'">>, <<"'">>)
        step3 == ReplaceAll(step2, <<"\\", "_">>, <<"_">>)
        step4 == ReplaceAll(step3, <<"\\", "*">>, <<"*">>)
        step5 == ReplaceAll(step4, <<"\\", "n">>, <<"\n">>)
        step6 == ReplaceAll(step5, <<"&", "a", "m", "p", ";", "q", "u", "o", "t", ";">>, <<"\"">>)
    IN ReplaceAll(step6, <<"&", "a", "m", "p", ";", "#", "3", "9", ";">>, <<"'">>)

\* lines 412-422: the fenced block, else the first tag span
ExtractHtml(text) ==
    IF MatchFencedHtml(text).found THEN trim(MatchFencedHtml(text).group)
    ELSE IF MatchDirectHtml(text).found THEN MatchDirectHtml(text).group
    ELSE <<>>

\* lines 428-433: titlePatterns, in the order of the array
titlePatterns(text) ==
    << MatchBoldLabel(text, <<"t", "i", "t", "l", "e">>),
       MatchLabel(text, <<"t", "i", "t", "l", "e", ":">>),
       MatchHeadingLine(text),
       MatchLabel(text, <<"s", "u", "g", "g", "e", "s", "t", "e", "d", " ", "t", "i", "t", "l", "e", ":">>) >>

\* lines 435-441: the first pattern whose group is not blank gives the title
RECURSIVE TitleFromPatterns(_, _)
TitleFromPatterns(matches, i) ==
    IF i > Len(matches) THEN <<>>
    ELSE IF matches[i].found /\ trim(matches[i].group) # <<>>
    THEN StripOneQuote(StripStars(trim(matches[i].group)))
    ELSE TitleFromPatterns(matches, i + 1)

\* Faulty variant: the second-level heading is tried before the bold phrase.
titleFallbacksHeadingsFirst == <<"h1", "h2", "bold">>

\* lines 443-465: the sources tried while the title is still empty
titleFallbacks == <<"h1", "bold", "h2">>

\* the title one fallback source gives, '' when it does not match
TitleFromSource(source, text, html) ==
    CASE source = "h1" ->
            IF MatchElement(html, <<"h", "1">>).found
            THEN trim(StripTags(MatchElement(html, <<"h", "1">>).group))
            ELSE <<>>
      [] source = "h2" ->
            IF MatchElement(html, <<"h", "2">>).found
            THEN trim(StripTags(MatchElement(html, <<"h", "2">>).group))
            ELSE <<>>
      [] source = "bold" ->
            IF MatchBoldPhrase(text).found
            THEN trim(MatchBoldPhrase(text).group)
            ELSE <<>>

\* if (!title) { ... } for each source in turn
RECURSIVE TitleFromFallbacks(_, _, _, _, _)
TitleFromFallbacks(title, sources, i, text, html) ==
    IF i > Len(sources) THEN title
    ELSE IF title # <<>> THEN TitleFromFallbacks(title, sources, i + 1, text, html)
    ELSE TitleFromFallbacks(TitleFromSource(sources[i], text, html),
                            sources, i + 1, text, html)

\* line 468: the clean-up of the title
CleanTitle(title) ==
    trim(ReplaceAll(StripWrapping(title), <<"\\", "\"">>, <<"\"">>))

ExtractTitle(text, html) ==
    CleanTitle(TitleFromFallbacks(TitleFromPatterns(titlePatterns(text), 1),
                                  titleFallbacks, 1, text, html))

\* line 486: t.trim().toLowerCase().replace(/^["'\*]+|["'\*]+$/g, '').trim()
NormalTag(t) == trim(StripWrapping(toLowerCase(trim(t))))

\* lines 481-488
ExtractTags(text) ==
    IF MatchTags(text).found
    THEN LET parts == SplitOnComma(MatchTags(text).group)
             normal == [i \in 1..Len(parts) |-> NormalTag(parts[i])]
         IN SelectSeq(normal, LAMBDA t : Len(t) > 0)
    ELSE <<>>

\* /Meta\s*[Dd]escription:\s*["']?([^"'\n]+)["']?/i
MatchMetaDescription(text) ==
    LET After(p) == RunEnd(text, p + 4, SpaceChars) + 12
        at == {p \in 1..Len(text) :
                  /\ MatchAtI(text, p, <<"m", "e", "t", "a">>)
                  /\ MatchAtI(text, After(p) - 12, <<"d", "e", "s", "c", "r", "i", "p", "t", "i", "o", "n", ":">>)
                  /\ ValueStart(text, After(p)) # 0}
    IN IF at = {} THEN NoMatch
       ELSE Matched(ValueFrom(text, ValueStart(text, After(Min(at)))))

\* the first of the matches that found something
RECURSIVE FirstFound(_, _)
FirstFound(matches, i) ==
    IF i > Len(matches) THEN NoMatch
    ELSE IF matches[i].found THEN matches[i]
    ELSE FirstFound(matches, i + 1)

\* lines 491-503
ExtractMetaDescription(text) ==
    LET match == FirstFound(<< MatchMetaDescription(text),
                               MatchBoldLabel(text, <<"m", "e", "t", "a", " ", "d", "e", "s", "c", "r", "i", "p", "t", "i", "o", "n">>) >>, 1)
    IN IF match.found THEN trim(match.group) ELSE <<>>

\* lines 506-519
ExtractExcerpt(text) ==
    LET match == FirstFound(<< MatchLabel(text, <<"e", "x", "c", "e", "r", "p", "t", ":">>),
                               MatchBoldLabel(text, <<"e", "x", "c", "e", "r", "p", "t">>),
                               MatchLabel(text, <<"c", "u", "s", "t", "o", "m", " ", "e", "x", "c", "e", "r", "p", "t", ":">>) >>, 1)
    IN IF match.found THEN trim(StripStars(trim(match.group))) ELSE <<>>

\* Faulty variant: the suffix is added to an empty title as well.
MetaTitleAlways(title) == title \o <<" ", "|", " ", "S", "t", "y", "l", "e", " ", "M", "e", " ", "P", "r", "e", "t", "t", "y">>

\* line 520: title ? `${title} | Style Me Pretty` : ''
MetaTitle(title) ==
    IF title # <<>> THEN title \o <<" ", "|", " ", "S", "t", "y", "l", "e", " ", "M", "e", " ", "P", "r", "e", "t", "t", "y">> ELSE <<>>

\* ai parseArticleResponse, lines 410-538
parseArticleResponse(text) ==
    LET html == ExtractHtml(text)
        title == ExtractTitle(text, html)
        suggestedTags == ExtractTags(text)
        metaDescription == ExtractMetaDescription(text)
        excerpt == ExtractExcerpt(text)
        metaTitle == MetaTitle(title)
    IN [article |-> [title |-> title,
                     slug |-> <<>>,
                     html |-> Unescape(html),
                     excerpt |-> excerpt,
                     tags |-> suggestedTags,
                     metaTitle |-> metaTitle,
                     metaDescription |-> metaDescription,
                     status |-> "draft"],
        suggestedTags |-> suggestedTags,
        metaTitle |-> metaTitle,
        metaDescription |-> metaDescription,
        excerpt |-> excerpt]

----------------------------------------------------------------------------
(* The clean-up of the extracted HTML on its own                            *)

MaxPieces == 3

\* What the extracted HTML is made of: the escape character, the characters
\* it escapes, the parts of the double-encoded entities, and a letter.
HtmlPieces ==
    {<<"\\">>,
     <<"\"">>,
     <<"'">>,
     <<"_">>,
     <<"*">>,
     <<"n">>,
     <<"&", "a", "m", "p", ";">>,
     <<"q", "u", "o", "t", ";">>,
     <<"#", "3", "9", ";">>,
     <<"&">>,
     <<"a">>}

\* pieces.join('')
RECURSIVE Concat(_)
Concat(pieces) ==
    IF pieces = <<>> THEN <<>> ELSE Head(pieces) \o Concat(Tail(pieces))

HtmlInputs == {Concat(ps) : ps \in StringsUpTo(HtmlPieces, MaxPieces)}

InitClean ==
    /\ AgentIdle
    /\ \E h \in HtmlInputs : given = [op |-> "unescape", html |-> h]
    /\ returned = Idle
    /\ gen = Idle
    /\ store = <<>>

\* ai parseArticleResponse, lines 470-478
CleanHtml ==
    /\ returned = Idle
    /\ returned' = [html |-> Unescape(given.html)]
    /\ UNCHANGED <<agentVars, given, gen, store>>

NextClean == CleanHtml

SpecClean == InitClean /\ [][NextClean]_vars

\* C19: the clean-up is idempotent: applied to HTML it has already cleaned,
\* it returns that HTML unchanged, whatever the input was.
C19_UnescapeIdempotent ==
    (given.op = "unescape" /\ returned # Idle) =>
        Unescape(returned.html) = returned.html

----------------------------------------------------------------------------
(* parseArticleResponse on the answers of the language model               *)

MaxSegments == 3

\* The lines an answer is made of, each with the kind of marker it carries
\* and the value the marker announces.
Segments ==
    {[kind |-> "title",
      text |-> <<"T", "i", "t", "l", "e", ":", " ", "B", "i", "g",
                " ", "D", "a", "y", "\n">>,
      value |-> << <<"B", "i", "g", " ", "D", "a", "y">> >>],
     [kind |-> "title",
      text |-> <<"T", "i", "t", "l", "e", ":", " ", "S", "a", "m",
                "'", "s", " ", "D", "a", "y", "\n">>,
      value |-> << <<"S", "a", "m", "'", "s", " ", "D", "a", "y">> >>],
     [kind |-> "boldTitle",
      text |-> <<"*", "*", "T", "i", "t", "l", "e", ":", "*", "*",
                " ", "B", "o", "l", "d", " ", "O", "n", "e", "\n">>,
      value |-> << <<"B", "o", "l", "d", " ", "O", "n", "e">> >>],
     [kind |-> "heading",
      text |-> <<"#", " ", "T", "o", "p", " ", "L", "i", "n", "e",
                "\n">>,
      value |-> << <<"T", "o", "p", " ", "L", "i", "n", "e">> >>],
     [kind |-> "suggested",
      text |-> <<"S", "u", "g", "g", "e", "s", "t", "e", "d", " ",
                "T", "i", "t", "l", "e", ":", " ", "A", "l", "t",
                "\n">>,
      value |-> << <<"A", "l", "t">> >>],
     [kind |-> "fence",
      text |-> <<Backtick, Backtick, Backtick, "h", "t", "m", "l",
                "\n", "<", "h", "1", ">", "M", "a", "i", "n", "<",
                "/", "h", "1", ">", "<", "p", ">", "a", "<", "/",
                "p", ">", "\n", Backtick, Backtick, Backtick, "\n">>,
      value |-> << <<"<", "h", "1", ">", "M", "a", "i", "n", "<", "/",
                 "h", "1", ">", "<", "p", ">", "a", "<", "/", "p",
                 ">">> >>],
     [kind |-> "fence",
      text |-> <<Backtick, Backtick, Backtick, "h", "t", "m", "l",
                "\n", "<", "h", "2", ">", "S", "u", "b", "<", "/",
                "h", "2", ">", "\n", Backtick, Backtick, Backtick,
                "\n">>,
      value |-> << <<"<", "h", "2", ">", "S", "u", "b", "<", "/", "h",
                 "2", ">">> >>],
     [kind |-> "direct",
      text |-> <<"<", "p", ">", "r", "a", "w", "<", "/", "p", ">",
                "\n">>,
      value |-> << <<"<", "p", ">", "r", "a", "w", "<", "/", "p", ">">> >>],
     [kind |-> "bold",
      text |-> <<"*", "*", "B", "o", "l", "d", "e", "d", " ", "P",
                "h", "r", "a", "s", "e", " ", "H", "e", "r", "e",
                "*", "*", "\n">>,
      value |-> << <<"B", "o", "l", "d", "e", "d", " ", "P", "h", "r",
                 "a", "s", "e", " ", "H", "e", "r", "e">> >>],
     [kind |-> "tags",
      text |-> <<"T", "a", "g", "s", ":", " ", "F", "l", "o", "r",
                "a", "l", ",", " ", "\"", "D", "I", "Y", "\"", ",",
                " ", "*", "t", "i", "p", "s", "*", "\n">>,
      value |-> << <<"f", "l", "o", "r", "a", "l">>, <<"d", "i", "y">>, <<"t", "i", "p", "s">> >>],
     [kind |-> "meta",
      text |-> <<"M", "e", "t", "a", " ", "D", "e", "s", "c", "r",
                "i", "p", "t", "i", "o", "n", ":", " ", "a", "b",
                "o", "u", "t", " ", "i", "t", "\n">>,
      value |-> << <<"a", "b", "o", "u", "t", " ", "i", "t">> >>],
     [kind |-> "excerpt",
      text |-> <<"E", "x", "c", "e", "r", "p", "t", ":", " ", "i",
                "n", " ", "s", "h", "o", "r", "t", "\n">>,
      value |-> << <<"i", "n", " ", "s", "h", "o", "r", "t">> >>],
     [kind |-> "prose",
      text |-> <<"p", "l", "a", "i", "n", " ", "w", "o", "r", "d",
                "s", "\n">>,
      value |-> <<>>],
     [kind |-> "prose",
      text |-> <<"a", " ", "<", " ", "b", ",", " ", "5", " ", "*",
                " ", "3", "\n">>,
      value |-> <<>>]}

Answers == StringsUpTo(Segments, MaxSegments)

\* the text of an answer: its lines one after the other
AnswerText(segments) == Concat([i \in 1..Len(segments) |-> segments[i].text])

InitParse ==
    /\ AgentIdle
    /\ \E a \in Answers :
          given = [op |-> "parse", segments |-> a, text |-> AnswerText(a)]
    /\ returned = Idle
    /\ gen = Idle
    /\ store = <<>>

\* ai parseArticleResponse, lines 410-538
ParseArticleResponse ==
    /\ returned = Idle
    /\ returned' = parseArticleResponse(given.text)
    /\ UNCHANGED <<agentVars, given, gen, store>>

NextParse == ParseArticleResponse

SpecParse == InitParse /\ [][NextParse]_vars

\* parseArticleResponse has returned.
Parsed == given.op = "parse" /\ returned # Idle

Kinds(segments) == {segments[i].kind : i \in 1..Len(segments)}

\* a string, possibly empty, and never null or undefined
IsString(x) == DOMAIN x = 1..Len(x)

\* C16: parseArticleResponse returns a complete draft for every text: every
\* field is there, the text fields are strings, tags is a list and status
\* is 'draft'; for a text without any marker, title, html, excerpt,
\* metaTitle and metaDescription are empty strings and tags is empty.
C16_AlwaysCompleteDraft ==
    Parsed =>
        LET a == returned.article IN
        /\ DOMAIN a = {"title", "slug", "html", "excerpt", "tags", "metaTitle",
                       "metaDescription", "status"}
        /\ \A f \in {"title", "slug", "html", "excerpt", "metaTitle",
                     "metaDescription"} : IsString(a[f])
        /\ \A i \in 1..Len(a.tags) : IsString(a.tags[i])
        /\ a.status = "draft"
        /\ Kinds(given.segments) \subseteq {"prose"} =>
              /\ a.title = <<>> /\ a.html = <<>> /\ a.excerpt = <<>>
              /\ a.metaTitle = <<>> /\ a.metaDescription = <<>>
              /\ a.tags = <<>>

\* a text of three lines without a marker
C16_Witness ==
    /\ Parsed
    /\ Len(given.segments) = 3
    /\ Kinds(given.segments) = {"prose"}
    /\ returned.article.title = <<>>
    /\ returned.article.status = "draft"

\* The title the labelled sources give: that of the first of titlePatterns
\* whose captured text is not blank.
LabelledTitle ==
    LET matches == titlePatterns(given.text)
        good == {i \in 1..Len(matches) :
                    matches[i].found /\ trim(matches[i].group) # <<>>}
    IN IF good = {} THEN <<>>
       ELSE StripOneQuote(StripStars(trim(matches[Min(good)].group)))

\* The title the first succeeding source of `order` gives once the labelled
\* sources have given none.
TitleInOrder(order) ==
    LET html == ExtractHtml(given.text)
        From(source) == TitleFromSource(source, given.text, html)
        good == {i \in 1..Len(order) : From(order[i]) # <<>>}
    IN CleanTitle(IF LabelledTitle # <<>> THEN LabelledTitle
                  ELSE IF good = {} THEN <<>>
                  ELSE From(order[Min(good)]))

Only(kind) ==
    LET at == {i \in 1..Len(given.segments) : given.segments[i].kind = kind}
    IN IF Cardinality(at) = 1 THEN given.segments[Min(at)]
       ELSE [kind |-> "none", text |-> <<>>, value |-> <<>>]

\* C18: for an answer with one fenced html block, one 'Title: X' line and
\* one 'Tags: a, b, c' line (and nothing else but prose and bare HTML), the
\* title is X, html is the content of the fenced block and tags are a, b, c
\* lower-cased and without their wrapping punctuation.
C18_FencedTitleTags ==
    (/\ Parsed
     /\ Kinds(given.segments) \subseteq {"fence", "title", "tags", "prose", "direct"}
     /\ Only("fence").kind = "fence"
     /\ Only("title").kind = "title"
     /\ Only("tags").kind = "tags")
    => /\ returned.article.title = Only("title").value[1]
       /\ returned.article.html = Only("fence").value[1]
       /\ returned.article.tags = Only("tags").value

-----------------------------------------------------------------------------
(* searchWeb (services/research) with the blocklist (utils/blocklist),     *)
(* over character strings                                                  *)
-----------------------------------------------------------------------------

\* the largest maxResults a caller asks for
MaxResults == 2

\* the longest list of results the search service answers with
MaxHits == 3

\* str.endsWith(part)
EndsWith(str, part) ==
    /\ Len(part) <= Len(str)
    /\ SubSeq(str, Len(str) - Len(part) + 1, Len(str)) = part

\* A URL is kept as [valid, host]: whether new URL(url) accepts it, and its
\* host as written.  new URL(url).hostname is the host in lower case.
hostname(url) == toLowerCase(url.host)

\* config/blocklist.json domains, as the README lists them
getBlockedDomains ==
    { <<"z", "o", "l", "a", ".", "c", "o", "m">>,
      <<"b", "r", "i", "d", "e", "s", ".", "c", "o", "m">> }

\* blocklist: isBlockedDomain; an unparseable URL is not blocked
isBlockedDomainExactOnly(url) ==
    /\ url.valid
    /\ \E domain \in getBlockedDomains : toLowerCase(hostname(url)) = domain

isBlockedDomain(url) ==
    /\ url.valid
    /\ LET host == toLowerCase(hostname(url))
       IN \E domain \in getBlockedDomains :
              host = domain \/ EndsWith(host, <<".">> \o domain)

\* blocklist: filterBlockedUrls
filterBlockedUrls(results) ==
    SelectSeq(results, LAMBDA hit : ~isBlockedDomain(hit.url))

\* results.slice(0, maxResults), maxResults >= 0
slice(results, maxResults) == SubSeq(results, 1, Min({maxResults, Len(results)}))

\* research: searchWeb.  reply is what the search service did: fetch is
\* "ok", "rejects" (fetch throws), "notOk" (response.ok false) or "badJson"
\* (response.json() throws); hasResults tells whether data.results is there.
\* Everything thrown inside the try block is caught and answered with [].
searchWebResults(key, maxResults, reply) ==
    IF ~key THEN <<>>
    ELSE IF reply.fetch # "ok" THEN <<>>
    ELSE LET hits == IF reply.hasResults THEN reply.results ELSE <<>>
         IN IF \E i \in 1..Len(hits) : ~hits[i].valid
            THEN <<>>   \* new URL(result.url) throws in the map
            ELSE LET results == [i \in 1..Len(hits) |->
                                    [url |-> hits[i], source |-> hostname(hits[i])]]
                 IN slice(filterBlockedUrls(results), maxResults)

\* The URLs the search service answers with.
Urls ==
    { [valid |-> TRUE,  host |-> <<"z", "o", "l", "a", ".", "c", "o", "m">>],
      [valid |-> TRUE,  host |-> <<"w", "w", "w", ".", "z", "o", "l", "a", ".", "c", "o", "m">>],
      [valid |-> TRUE,  host |-> <<"B", "r", "i", "d", "e", "s", ".", "c", "o", "m">>],
      [valid |-> TRUE,  host |-> <<"m", "y", "z", "o", "l", "a", ".", "c", "o", "m">>],
      [valid |-> TRUE,  host |-> <<"o", "k", ".", "c", "o", "m">>],
      [valid |-> TRUE,  host |-> <<"O", "k", ".", "o", "r", "g">>],
      [valid |-> FALSE, host |-> <<>>] }

RECURSIVE ListsUpTo(_, _)
ListsUpTo(set, n) ==
    IF n = 0 THEN {<<>>}
    ELSE LET shorter == ListsUpTo(set, n - 1)
         IN shorter \cup {<<x>> \o list : x \in set, list \in shorter}

Replies ==
    {[fetch |-> "ok", hasResults |-> TRUE, results |-> hits] :
        hits \in ListsUpTo(Urls, MaxHits)}
    \cup {[fetch |-> f, hasResults |-> FALSE, results |-> <<>>] :
        f \in {"ok", "rejects", "notOk", "badJson"}}

InitSearch ==
    /\ AgentIdle
    /\ given \in {[op |-> "searchWeb", key |-> key, maxResults |-> n, reply |-> reply] :
                     key \in BOOLEAN, n \in 0..MaxResults, reply \in Replies}
    /\ returned = Idle
    /\ gen = Idle
    /\ store = <<>>

SearchWeb ==
    /\ given.op = "searchWeb"
    /\ returned = Idle
    /\ returned' = [op |-> "searchWeb", threw |-> FALSE,
                    results |-> searchWebResults(given.key, given.maxResults, given.reply)]
    /\ UNCHANGED <<agentVars, given, gen, store>>

NextSearch == SearchWeb

SpecSearch == InitSearch /\ [][NextSearch]_vars

\* the host of url is a blocked domain or a subdomain of one
BlockedHost(url) ==
    LET host == toLowerCase(url.host)
    IN \E domain \in getBlockedDomains :
           \/ host = domain
           \/ \E k \in 1..Len(host) :
                  host[k] = "." /\ SubSeq(host, k + 1, Len(host)) = domain

SearchDone == given.op = "searchWeb" /\ returned # Idle

\* C21: searchWeb never throws; no returned result has a host that is a
\* blocked domain or a subdomain of one; at most maxResults results are
\* returned; and the list is empty when the API key is missing or the search
\* request fails.
C21_SearchWebFiltered ==
    SearchDone =>
        /\ ~returned.threw
        /\ \A i \in 1..Len(returned.results) : ~BlockedHost(returned.results[i].url)
        /\ Len(returned.results) <= given.maxResults
        /\ (~given.key \/ given.reply.fetch # "ok") => returned.results = <<>>

\* a configured search answered with more unblocked hits than asked for,
\* among them a subdomain of a blocked domain, cut down to maxResults
C21_Witness ==
    /\ SearchDone
    /\ given.key
    /\ Len(given.reply.results) = MaxHits
    /\ \E i \in 1..MaxHits :
           given.reply.results[i].host = <<"w", "w", "w", ".", "z", "o", "l", "a", ".", "c", "o", "m">>
    /\ Len(returned.results) = given.maxResults
    /\ given.maxResults = MaxResults

-----------------------------------------------------------------------------
(* Further properties of the generators                                    *)
-----------------------------------------------------------------------------

\* C22: a generator run with dryRun set never reaches createDraftArticle and
\* leaves the publishing store without a new post, for generateFromInterview,
\* generateFromInsight, generateSEOContent and generateThemeRoundup alike.
C22_DryRunWritesNothing ==
    (given.op = "generate" /\ given.path \in Generators /\ given.dryRun)
    => (gen.pc # "create" /\ store = <<>>)

\* a dry run of generateFromInterview has returned its preview
C22_Witness ==
    /\ given.op = "generate"
    /\ given.path = "interview"
    /\ given.dryRun
    /\ gen.pc = "done"
    /\ returned.success
    /\ returned.message = "dry run"
    /\ gen.article.title = given.candidate
    /\ store = <<>>

\* No existing article matches the candidate: no exact match, none similar.
NoMatchingArticle ==
    /\ ~exactMatch(given.articles, given.candidate)
    /\ similarArticles(given.articles, given.candidate) = <<>>

\* C26: when checkArticleExists reports no exact match and no similar
\* article, generateSEOContent, generateFromInsight and generateThemeRoundup
\* do not answer 'may already exist': with every collaborator answering they
\* generate the article and, unless dryRun is set, write one draft.
C26_UnmatchedTopicIsGenerated ==
    (/\ given.op = "generate"
     /\ given.path \in {"seo", "insight", "roundup"}
     /\ gen.pc = "done"
     /\ given.fails = "none"
     /\ NoMatchingArticle)
    => /\ returned.message # "may already exist"
       /\ returned.success
       /\ gen.article.title = given.candidate
       /\ Len(store) = IF given.dryRun THEN 0 ELSE 1

-----------------------------------------------------------------------------
(* Further properties of the agent loop                                    *)
-----------------------------------------------------------------------------

\* The run has made the model call that the iteration ceiling allows last.
AtCeiling == modelCalls = maxIterations + 1 /\ iterations = maxIterations

\* C27: when the iteration ceiling is reached, the tool calls requested in
\* the final model response are not executed: from the last model call on no
\* tool is executed, no collaborator is called, the conversation gets no
\* further turn, and no tool_result answers a tool_use block of that response.
C27_CeilingDropsToolCalls ==
    /\ []((AtCeiling /\ pc \in {"test", "done"})
            => /\ toolBatches = maxIterations
               /\ \A i \in 1..Len(response.content) :
                      IsToolUse(response.content[i])
                      => /\ ResultsFor(response.content[i].id) = {}
                         /\ lastExec.id # response.content[i].id)
    /\ [][AtCeiling => /\ toolsExecuted' = toolsExecuted
                       /\ lastExec' = lastExec
                       /\ messages' = messages
                       /\ modelCalls' = modelCalls
                       /\ pc' \in {"test", "done"}]_vars

\* a run ended at the ceiling while the model was still asking for tools
C27_Witness ==
    /\ pc = "done"
    /\ AtCeiling
    /\ response.stop_reason = "tool_use"
    /\ ToolUses(response.content) # <<>>
    /\ HasNote(result)
    /\ toolsExecuted > 0

-----------------------------------------------------------------------------
(* generateFromInterview with its article cache                             *)
(* (generators/interview-profile), over a sequence of calls and a clock     *)
-----------------------------------------------------------------------------

\* CACHE_TTL, in minutes
CACHE_TTL == 10

\* the number of generateFromInterview calls in a run
MaxCalls == 3

\* the minutes the clock runs for
MaxMinutes == 15

DocumentIds == {"doc1", "doc2"}

\* the titles the language model gives an article
GeneratedTitles == {<<"a">>, <<"B">>}

\* the content (html, tags, metadata, excerpt) of the n-th generated article
Versions == <<"v1", "v2", "v3", "v4", "v5", "v6">>

\* What fails during a call, if anything: the interview fetch, an interview
\* that is too short, the language model, the publishing store's browse or
\* add, the cache file's read or write.
CallFailures ==
    {"none", "docs", "short", "ai", "ghost.browse", "ghost.add",
     "cache.read", "cache.write"}

NoEntry == [present |-> FALSE, article |-> NoArticle, timestamp |-> 0]

\* interview-profile.ts: getCachePath
getCachePath(documentId) == documentId

\* Faulty variant: the cache is never found.
getCachedArticleNever(files, documentId, now, readable) == NoEntry

\* interview-profile.ts: getCachedArticle; null (NoEntry) when the file is
\* missing, unreadable or older than CACHE_TTL
getCachedArticle(files, documentId, now, readable) ==
    LET data == files[getCachePath(documentId)]
    IN IF ~data.present THEN NoEntry
       ELSE IF ~readable THEN NoEntry
       ELSE IF now - data.timestamp > CACHE_TTL THEN NoEntry
       ELSE data

\* interview-profile.ts: cacheArticle; a failed write is logged and dropped
cacheArticle(files, documentId, article, now, writable) ==
    IF writable
    THEN [files EXCEPT ![getCachePath(documentId)] =
              [present |-> TRUE, article |-> article, timestamp |-> now]]
    ELSE files

NoPreview == [shown |-> FALSE, article |-> NoArticle, at |-> 0, intact |-> FALSE]

InitCache ==
    /\ AgentIdle
    /\ given = Idle
    /\ returned = Idle
    /\ gen = [now |-> 0,
              files |-> [d \in DocumentIds |-> NoEntry],
              calls |-> 0, fetches |-> 0, aiCalls |-> 0,
              article |-> NoArticle,
              preview |-> [d \in DocumentIds |-> NoPreview]]
    /\ store = <<>>

\* time passes between calls
Tick ==
    /\ gen.calls \in 1..(MaxCalls - 1)
    /\ gen.now + 5 <= MaxMinutes
    /\ gen' = [gen EXCEPT !.now = gen.now + 5]
    /\ UNCHANGED <<agentVars, given, returned, store>>

\* One call of generateFromInterview(documentId, {dryRun}),
\* interview-profile.ts:45-151.  gen.preview keeps, per document, the article
\* of the latest successful preview, when it was shown, and whether its cache
\* file was written and has been readable since.
GenerateFromInterview ==
    /\ gen.calls < MaxCalls
    /\ \E documentId \in DocumentIds, dryRun \in BOOLEAN, fails \in CallFailures,
          title \in GeneratedTitles :
        LET cached == getCachedArticle(gen.files, documentId, gen.now,
                                       fails # "cache.read")
            useCache == cached.present /\ ~dryRun
            fetched == ~useCache
            modelCalled == fetched /\ fails \notin {"docs", "short"}
            generated == modelCalled /\ fails # "ai"
            article == IF useCache THEN cached.article
                       ELSE [title |-> title, slug |-> generateSlug(title),
                             html |-> Versions[gen.aiCalls + 1],
                             status |-> "draft"]
            files == IF generated
                     THEN cacheArticle(gen.files, documentId, article, gen.now,
                                       fails # "cache.write")
                     ELSE gen.files
            counted == [gen EXCEPT !.calls = gen.calls + 1,
                                   !.fetches = IF fetched THEN @ + 1 ELSE @,
                                   !.aiCalls = IF modelCalled THEN @ + 1 ELSE @,
                                   !.files = files,
                                   !.article = NoArticle,
                                   !.preview[documentId].intact =
                                       @ /\ fails # "cache.read"]
            check == DuplicateCheckResult(store, article.title)
            r == createDraftArticle(article,
                                    IF fails = "ghost.add" THEN "throw" ELSE "ok")
        IN /\ given' = [op |-> "generateFromInterview", documentId |-> documentId,
                        dryRun |-> dryRun, fails |-> fails]
           /\ IF fetched /\ fails = "docs"
              THEN gen' = counted /\ returned' = Failed /\ store' = store
              ELSE IF fetched /\ fails = "short"
              THEN /\ gen' = counted
                   /\ returned' = [success |-> FALSE, message |-> "too short",
                                   note |-> FALSE]
                   /\ store' = store
              ELSE IF modelCalled /\ fails = "ai"
              THEN gen' = counted /\ returned' = Failed /\ store' = store
              ELSE IF dryRun
              THEN /\ gen' = [counted EXCEPT
                                 !.article = article,
                                 !.preview[documentId] =
                                     [shown |-> TRUE, article |-> article,
                                      at |-> gen.now,
                                      intact |-> fails # "cache.write"]]
                   /\ returned' = [success |-> TRUE, message |-> "dry run",
                                   note |-> FALSE]
                   /\ store' = store
              ELSE IF fails = "ghost.browse"
              THEN /\ gen' = [counted EXCEPT !.article = article]
                   /\ returned' = Failed
                   /\ store' = store
              ELSE IF check.exactMatch
              THEN /\ gen' = [counted EXCEPT !.article = article]
                   /\ returned' = [success |-> FALSE,
                                   message |-> "exact title already exists",
                                   note |-> FALSE]
                   /\ store' = store
              ELSE /\ gen' = [counted EXCEPT !.article = article]
                   /\ store' = store \o Written(r)
                   /\ returned' = IF r.threw THEN Failed
                                  ELSE [success |-> TRUE, message |-> "Created draft",
                                        note |-> check.similarArticles # <<>>]
    /\ UNCHANGED agentVars

NextCache ==
    \/ Tick
    \/ GenerateFromInterview

SpecCache == InitCache /\ [][NextCache]_vars

\* the step is a call of generateFromInterview(documentId, {dryRun})
CallOf(documentId, dryRun) ==
    /\ gen'.calls = gen.calls + 1
    /\ given'.documentId = documentId
    /\ given'.dryRun = dryRun

\* the post createDraftArticle writes for an article
PostOf(article) ==
    [title |-> article.title, slug |-> article.slug, html |-> article.html,
     status |-> "draft"]

\* a call without dryRun within CACHE_TTL of the document's latest preview
\* neither fetches the interview nor calls the model, hands on exactly the
\* previewed article, and writes that article or nothing
PublishesThePreview(documentId) ==
    LET preview == gen.preview[documentId]
    IN (/\ CallOf(documentId, FALSE)
        /\ preview.shown
        /\ preview.intact
        /\ gen.now - preview.at <= CACHE_TTL
        /\ given'.fails # "cache.read")
       => /\ gen'.fetches = gen.fetches
          /\ gen'.aiCalls = gen.aiCalls
          /\ gen'.article = preview.article
          /\ store' \in {store, Append(store, PostOf(preview.article))}
          /\ (given'.fails \in {"none", "cache.write"}
              /\ ~exactMatch(store, preview.article.title))
             => (store' = Append(store, PostOf(preview.article))
                 /\ returned'.success)

\* a call without dryRun on a cache entry older than CACHE_TTL fetches the
\* interview and generates a new article
RegeneratesWhenExpired(documentId) ==
    LET entry == gen.files[documentId]
    IN (/\ CallOf(documentId, FALSE)
        /\ entry.present
        /\ gen.now - entry.timestamp > CACHE_TTL)
       => /\ gen'.fetches = gen.fetches + 1
          /\ given'.fails \notin {"docs", "short"}
             => gen'.aiCalls = gen.aiCalls + 1
          /\ given'.fails \notin {"docs", "short", "ai"}
             => /\ gen'.article.html = Versions[gen'.aiCalls]
                /\ gen'.article.html # entry.article.html

\* a dryRun call never uses the cache: it fetches and generates, and the new
\* article replaces the cache entry
DryRunRegenerates(documentId) ==
    CallOf(documentId, TRUE)
    => /\ gen'.fetches = gen.fetches + 1
       /\ store' = store
       /\ given'.fails \notin {"docs", "short"}
          => gen'.aiCalls = gen.aiCalls + 1
       /\ given'.fails \in {"none", "ghost.browse", "ghost.add", "cache.read"}
          => /\ returned'.success
             /\ gen'.article.html = Versions[gen'.aiCalls]
             /\ gen'.files[documentId] =
                    [present |-> TRUE, article |-> gen'.article,
                     timestamp |-> gen.now]

-----------------------------------------------------------------------------
(* The weekly script: generateNewInterviewArticle with the processed-       *)
(* interviews file, over a sequence of weekly runs                          *)
-----------------------------------------------------------------------------

\* the number of weekly runs
MaxRuns == 3

InterviewIds == {"i1", "i2", "i3"}

\* the lists listInterviews may answer with: documents in any order
RECURSIVE ListsWithoutRepeats(_)
ListsWithoutRepeats(set) ==
    {<<>>} \cup UNION {{<<x>> \o list : list \in ListsWithoutRepeats(set \ {x})} :
                        x \in set}

\* Faulty variant: the file is rewritten with the new id only.
saveProcessedInterviewAlone(processed, id) == {id}

\* saveProcessedInterview: load the file, add the id, write it back
saveProcessedInterview(processed, id) == processed \cup {id}

\* the interviews.filter(...) callback's verdict: new when the id is not
\* processed and no existing article mentions the vendor
IsNewInterview(id, processed, hasArticle) ==
    id \notin processed /\ id \notin hasArticle

\* the ids the filter marks as processed: unprocessed ones with an article
RECURSIVE MarkSkipped(_, _, _, _)
MarkSkipped(interviews, loaded, hasArticle, file) ==
    IF interviews = <<>> THEN file
    ELSE LET id == Head(interviews)
         IN MarkSkipped(Tail(interviews), loaded, hasArticle,
                        IF id \notin loaded /\ id \in hasArticle
                        THEN saveProcessedInterview(file, id) ELSE file)

InitWeekly ==
    /\ AgentIdle
    /\ given = Idle
    /\ returned = Idle
    /\ gen = [pc |-> "idle", processed |-> {}, runs |-> 0, current |-> "none",
              failed |-> {}]
    /\ store = <<>>

\* part_006:293-337: the interviews are listed and filtered, ids of
\* interviews that already have an article are saved as processed, and the
\* first new interview is handed to generateFromInterview.  hasArticle is
\* the set of listed interviews whose vendor an existing article mentions.
StartWeeklyRun ==
    /\ gen.pc = "idle"
    /\ gen.runs < MaxRuns
    /\ \E interviews \in ListsWithoutRepeats(InterviewIds),
          hasArticle \in SUBSET InterviewIds :
        LET processed == gen.processed
            newInterviews == SelectSeq(interviews,
                LAMBDA id : IsNewInterview(id, processed, hasArticle))
            file == MarkSkipped(interviews, processed, hasArticle, gen.processed)
        IN /\ given' = [op |-> "generateNewInterviewArticle",
                        interviews |-> interviews, hasArticle |-> hasArticle,
                        processed |-> processed]
           /\ IF newInterviews = <<>>
              THEN /\ gen' = [gen EXCEPT !.processed = file, !.runs = @ + 1,
                                         !.current = "none"]
                   /\ returned' = [op |-> "generateNewInterviewArticle",
                                   passed |-> "none", success |-> FALSE]
              ELSE /\ gen' = [gen EXCEPT !.processed = file, !.runs = @ + 1,
                                         !.current = newInterviews[1],
                                         !.pc = "generating"]
                   /\ returned' = returned
    /\ UNCHANGED <<agentVars, store>>

\* part_006:337-349: generateFromInterview answers; only a success is saved
FinishWeeklyRun ==
    /\ gen.pc = "generating"
    /\ \E success \in BOOLEAN :
        /\ gen' = [gen EXCEPT
                      !.pc = "idle",
                      !.processed = IF success
                                    THEN saveProcessedInterview(@, gen.current)
                                    ELSE @,
                      !.failed = IF success THEN @ \ {gen.current}
                                 ELSE @ \cup {gen.current}]
        /\ returned' = [op |-> "generateNewInterviewArticle",
                        passed |-> gen.current, success |-> success]
    /\ UNCHANGED <<agentVars, given, store>>

NextWeekly ==
    \/ StartWeeklyRun
    \/ FinishWeeklyRun

SpecWeekly == InitWeekly /\ [][NextWeekly]_vars

\* the ids the latest run skipped because an article already exists
SkippedForArticle(run) ==
    {run.interviews[i] : i \in 1..Len(run.interviews)}
        \cap (run.hasArticle \ run.processed)

\* C23: across weekly runs the set of processed interview ids only grows; an
\* id in the set is never handed to generateFromInterview; an id is added
\* exactly when its generation succeeded or its interview was skipped
\* because an article already exists; an id whose generation failed is not
\* added by that run.
C23_ProcessedOnlyGrows ==
    /\ [](gen.pc = "generating" => gen.current \notin gen.processed)
    /\ [][/\ gen.processed \subseteq gen'.processed
          /\ gen.pc = "idle"
             => gen'.processed = gen.processed \cup SkippedForArticle(given')
          /\ gen.pc = "generating"
             => gen'.processed = gen.processed \cup
                    (IF returned'.success THEN {gen.current} ELSE {})]_vars

\* a second run hands on the interview whose generation failed in the first,
\* while the skipped and the generated ones are in the set
C23_Witness ==
    /\ gen.runs = 3
    /\ gen.pc = "generating"
    /\ gen.current \in gen.failed
    /\ Cardinality(gen.processed) = 2
    /\ given.hasArticle = {}

-----------------------------------------------------------------------------
(* The weekly script: generateWeeklySEO                                     *)
-----------------------------------------------------------------------------

\* the longest topic, in words, that researchCurrentTrends answers with
MaxTrendWords == 2

TrendTopics ==
    {JoinWords(ws) : ws \in StringsUpTo(TopicVocabulary, MaxTrendWords)} \ {<<>>}

NoTopic == <<>>

\* given.topic is the topic researchCurrentTrends(weekNumber) answers with,
\* given.alt the one researchCurrentTrends(weekNumber + 10) answers with
InitWeeklySEO ==
    /\ AgentIdle
    /\ given \in {[op |-> "generateWeeklySEO", topic |-> t, alt |-> a,
                   articles |-> as] :
                     t \in TrendTopics, a \in TrendTopics, as \in CoveredLists}
    /\ returned = Idle
    /\ gen = Idle
    /\ store = <<>>

\* part_006:207-235.  The alternative topic is only tested: the topic handed
\* to generateSEOContent at line 227 is the first one.
GenerateWeeklySEO ==
    /\ given.op = "generateWeeklySEO"
    /\ returned = Idle
    /\ LET topic == given.topic
           skipped == /\ isTopicAlreadyCovered(topic, given.articles)
                      /\ isTopicAlreadyCovered(given.alt, given.articles)
       IN returned' = IF skipped
                      THEN [op |-> "generateWeeklySEO", called |-> FALSE,
                            topic |-> NoTopic]
                      ELSE [op |-> "generateWeeklySEO", called |-> TRUE,
                            topic |-> topic]
    /\ UNCHANGED <<agentVars, given, gen, store>>

NextWeeklySEO == GenerateWeeklySEO

SpecWeeklySEO == InitWeeklySEO /\ [][NextWeeklySEO]_vars

\* C24: generateWeeklySEO never calls generateSEOContent with a topic for
\* which isTopicAlreadyCovered returns true against the existing articles.
C24_CoveredTopicNotGenerated ==
    (given.op = "generateWeeklySEO" /\ returned # Idle /\ returned.called)
    => ~isTopicAlreadyCovered(returned.topic, given.articles)

-----------------------------------------------------------------------------
(* initializeServices in the HTTP server (server.ts) and the MCP server    *)
(* (lambda-handler.ts), with several requests in flight                     *)
-----------------------------------------------------------------------------

Requests == {"r1", "r2", "r3"}

Servers == {"http", "mcp"}

\* gen.initialized is servicesInitialized; gen.writes counts the assignments
\* to the process-wide clients and configuration (process.env, ghostClient,
\* oauth2Client, docsClient, driveClient, tavilyApiKey); gen.at is where each
\* request's handler stands.
InitServices ==
    /\ AgentIdle
    /\ given \in {[op |-> "serve", server |-> s] : s \in Servers}
    /\ returned = Idle
    /\ gen = [initialized |-> FALSE, writes |-> 0,
              at |-> [r \in Requests |-> "idle"]]
    /\ store = <<>>

\* The handler starts: `if (servicesInitialized) return` and, when the flag
\* is still false, the code up to the first await.  The HTTP server awaits
\* loadSecrets() first; the MCP server calls initGhostClient and then awaits
\* initGoogleClients().
Receive(r) ==
    /\ gen.at[r] = "idle"
    /\ gen' = IF gen.initialized
              THEN [gen EXCEPT !.at[r] = "loop"]
              ELSE IF given.server = "http"
              THEN [gen EXCEPT !.at[r] = "secrets"]
              ELSE [gen EXCEPT !.at[r] = "google", !.writes = @ + 1]
    /\ UNCHANGED <<agentVars, given, returned, store>>

\* HTTP server: loadSecrets resolves; process.env is written, then
\* setupGoogleToken, initGhostClient, and initGoogleClients up to its await
SecretsLoaded(r) ==
    /\ gen.at[r] = "secrets"
    /\ gen' = [gen EXCEPT !.at[r] = "google", !.writes = @ + 1]
    /\ UNCHANGED <<agentVars, given, returned, store>>

\* initGoogleClients resolves: docsClient and driveClient are assigned,
\* servicesInitialized becomes true and the handler goes on to runContentAgent
GoogleClientsReady(r) ==
    /\ gen.at[r] = "google"
    /\ gen' = [gen EXCEPT !.at[r] = "loop", !.writes = @ + 1,
                          !.initialized = TRUE]
    /\ UNCHANGED <<agentVars, given, returned, store>>

\* an awaited step rejects: the request is answered with the error and the
\* flag stays as it is
InitializationFails(r) ==
    /\ gen.at[r] \in {"secrets", "google"}
    /\ gen' = [gen EXCEPT !.at[r] = "failed"]
    /\ UNCHANGED <<agentVars, given, returned, store>>

\* runContentAgent returns or throws and the request is answered
AgentLoopEnds(r) ==
    /\ gen.at[r] = "loop"
    /\ gen' = [gen EXCEPT !.at[r] = "done"]
    /\ UNCHANGED <<agentVars, given, returned, store>>

NextServices ==
    \E r \in Requests :
        \/ Receive(r)
        \/ SecretsLoaded(r)
        \/ GoogleClientsReady(r)
        \/ InitializationFails(r)
        \/ AgentLoopEnds(r)

SpecServices == InitServices /\ [][NextServices]_vars

LoopInProgress == \E r \in Requests : gen.at[r] = "loop"

\* C25: the process-wide clients and configuration are not written again
\* once initialization has succeeded, no request writes them while another
\* request's agent loop is in progress, and no agent loop starts before
\* initialization succeeded, also with several requests in flight.
C25_InitializedOnce ==
    /\ [](LoopInProgress => gen.initialized)
    /\ [][(gen.initialized \/ LoopInProgress) => gen'.writes = gen.writes]_vars

-----------------------------------------------------------------------------
(* getExistingArticles (services/ghost): the pagination loop                *)
-----------------------------------------------------------------------------

\* the number of posts in the publishing store
MaxPosts == 4

\* the page size (posts.browse's limit), scaled down
PageLimit == 2

PostIds == 1..MaxPosts

\* what posts.browse({limit, page}) resolves to over a store holding posts:
\* the page's posts and, when the store sends pagination metadata,
\* meta.pagination.next (0 stands for null); hasMeta FALSE is a response
\* without meta
browse(posts, page, hasMeta) ==
    LET from == (page - 1) * PageLimit + 1
        to == Min({page * PageLimit, Len(posts)})
    IN [posts |-> SubSeq(posts, from, to),
        hasMeta |-> hasMeta,
        next |-> IF hasMeta /\ page * PageLimit < Len(posts) THEN page + 1 ELSE 0]

\* response.meta?.pagination?.next !== null: undefined when the metadata is
\* missing, and undefined !== null is true
hasMore(answer) == ~answer.hasMeta \/ answer.next # 0

\* the last page that holds a post; every page after it is empty
LastPage(posts) == (Len(posts) + PageLimit - 1) \div PageLimit

\* page++, where the pages after the last one, all empty alike, are kept by
\* the parity of their distance from it
NextPage(posts, page) ==
    IF page = LastPage(posts) + 2 THEN page - 1 ELSE page + 1

\* given.failAt is the page at which posts.browse rejects, 0 for never
InitPages ==
    /\ AgentIdle
    /\ given \in {[op |-> "getExistingArticles", posts |-> posts,
                   hasMeta |-> hasMeta, failAt |-> failAt] :
                     posts \in ListsWithoutRepeats(PostIds),
                     hasMeta \in BOOLEAN, failAt \in 0..2}
    /\ returned = Idle
    /\ gen = [pc |-> "loop", page |-> 1, hasMore |-> TRUE, articles |-> <<>>]
    /\ store = <<>>

\* part_001:23-41: one pass of while (hasMore)
BrowsePage ==
    /\ given.op = "getExistingArticles"
    /\ gen.pc = "loop"
    /\ gen.hasMore
    /\ gen.page # given.failAt
    /\ LET answer == browse(given.posts, gen.page, given.hasMeta)
       IN gen' = [gen EXCEPT !.articles = @ \o answer.posts,
                             !.hasMore = hasMore(answer),
                             !.page = NextPage(given.posts, gen.page)]
    /\ UNCHANGED <<agentVars, given, returned, store>>

\* part_001:42-46: posts.browse rejects; the error is logged and rethrown
BrowseFails ==
    /\ given.op = "getExistingArticles"
    /\ gen.pc = "loop"
    /\ gen.hasMore
    /\ gen.page = given.failAt
    /\ gen' = [gen EXCEPT !.pc = "threw"]
    /\ returned' = [op |-> "getExistingArticles", threw |-> TRUE, value |-> <<>>]
    /\ UNCHANGED <<agentVars, given, store>>

\* part_001:48: the loop is left and the articles are returned
ReturnArticles ==
    /\ given.op = "getExistingArticles"
    /\ gen.pc = "loop"
    /\ ~gen.hasMore
    /\ gen' = [gen EXCEPT !.pc = "returned"]
    /\ returned' = [op |-> "getExistingArticles", threw |-> FALSE,
                    value |-> gen.articles]
    /\ UNCHANGED <<agentVars, given, store>>

NextPages ==
    \/ BrowsePage
    \/ BrowseFails
    \/ ReturnArticles

SpecPages == InitPages /\ [][NextPages]_vars

\* the function keeps running: an async function's next step is always taken
FairSpecPages == SpecPages /\ WF_vars(NextPages)

\* C29: getExistingArticles terminates for every store with finitely many
\* pages, with or without pagination metadata in the responses, and what it
\* returns is the posts of all pages in page order, none dropped or repeated.
C29_TerminatesWithAllPosts ==
    /\ <>(gen.pc \in {"returned", "threw"})
    /\ [](gen.pc = "returned" => returned.value = given.posts)

-----------------------------------------------------------------------------
(* The daily scheduler (daily-scheduler.ts): processNewInterviews and       *)
(* processNewIdeas                                                          *)
-----------------------------------------------------------------------------

IdeaIds == {"d1", "d2"}

\* the listed documents that pass the filter: those no existing article
\* matches (hasArticle is the set of documents an article matches)
NewDocuments(listed, hasArticle) ==
    SelectSeq(listed, LAMBDA id : id \notin hasArticle)

\* Faulty variant: the count is raised whether the agent run failed or not.
CountAlways(processedCount, completed) == processedCount + 1

\* try { await runContentAgent(...); processedCount++ } catch { log }
CountCompleted(processedCount, completed) ==
    IF completed THEN processedCount + 1 ELSE processedCount

\* given: the documents listInterviews and listArticleIdeas answer with, the
\* documents an existing article matches, and whether GOOGLE_IDEAS_FOLDER_ID
\* is set.  gen.handed lists the documents handed to runContentAgent,
\* gen.completed those whose run returned.
InitDaily ==
    /\ AgentIdle
    /\ given \in {[op |-> "runDailyCheck", interviews |-> interviews,
                   ideas |-> ideas, hasArticle |-> hasArticle,
                   ideasFolder |-> ideasFolder] :
                     interviews \in ListsWithoutRepeats(InterviewIds),
                     ideas \in ListsWithoutRepeats(IdeaIds),
                     hasArticle \in SUBSET {"i1", "i2", "d1"},
                     ideasFolder \in BOOLEAN}
    /\ returned = Idle
    /\ gen = [pc |-> "interviews", next |-> 1, handed |-> <<>>,
              completed |-> <<>>, interviewCount |-> 0, ideaCount |-> 0]
    /\ store = <<>>

NewInterviews == NewDocuments(given.interviews, given.hasArticle)

NewIdeas ==
    IF given.ideasFolder THEN NewDocuments(given.ideas, given.hasArticle)
    ELSE <<>>

\* daily-scheduler.ts:88-107: one pass of the loop over the new interviews
ProcessInterview ==
    /\ given.op = "runDailyCheck"
    /\ gen.pc = "interviews"
    /\ gen.next <= Len(NewInterviews)
    /\ \E completed \in BOOLEAN :
        LET interview == NewInterviews[gen.next]
        IN gen' = [gen EXCEPT
                      !.next = @ + 1,
                      !.handed = Append(@, interview),
                      !.completed = IF completed THEN Append(@, interview) ELSE @,
                      !.interviewCount = CountCompleted(@, completed)]
    /\ UNCHANGED <<agentVars, given, returned, store>>

\* daily-scheduler.ts:109 and 133-166: processNewInterviews returns its
\* count and processNewIdeas starts
StartIdeas ==
    /\ given.op = "runDailyCheck"
    /\ gen.pc = "interviews"
    /\ gen.next > Len(NewInterviews)
    /\ gen' = [gen EXCEPT !.pc = "ideas", !.next = 1]
    /\ UNCHANGED <<agentVars, given, returned, store>>

\* daily-scheduler.ts:168-204: one pass of the loop over the new ideas, with
\* getIdea answering
ProcessIdea ==
    /\ given.op = "runDailyCheck"
    /\ gen.pc = "ideas"
    /\ gen.next <= Len(NewIdeas)
    /\ \E completed \in BOOLEAN :
        LET idea == NewIdeas[gen.next]
        IN gen' = [gen EXCEPT
                      !.next = @ + 1,
                      !.handed = Append(@, idea),
                      !.completed = IF completed THEN Append(@, idea) ELSE @,
                      !.ideaCount = CountCompleted(@, completed)]
    /\ UNCHANGED <<agentVars, given, returned, store>>

\* daily-scheduler.ts:172 and 242-245: getIdea rejects outside the loop's
\* try block; runDailyCheck logs the error and exits
GetIdeaFails ==
    /\ given.op = "runDailyCheck"
    /\ gen.pc = "ideas"
    /\ gen.next <= Len(NewIdeas)
    /\ gen' = [gen EXCEPT !.pc = "exit"]
    /\ returned' = [op |-> "runDailyCheck", exit |-> 1, interviews |-> 0,
                    ideas |-> 0]
    /\ UNCHANGED <<agentVars, given, store>>

\* daily-scheduler.ts:206 and 233-240: the counts are reported
ReportCounts ==
    /\ given.op = "runDailyCheck"
    /\ gen.pc = "ideas"
    /\ gen.next > Len(NewIdeas)
    /\ gen' = [gen EXCEPT !.pc = "done"]
    /\ returned' = [op |-> "runDailyCheck", exit |-> 0,
                    interviews |-> gen.interviewCount, ideas |-> gen.ideaCount]
    /\ UNCHANGED <<agentVars, given, store>>

NextDaily ==
    \/ ProcessInterview
    \/ StartIdeas
    \/ ProcessIdea
    \/ GetIdeaFails
    \/ ReportCounts

SpecDaily == InitDaily /\ [][NextDaily]_vars

\* C30: in the daily scheduler a failed agent run stops nothing: when the
\* counts are reported every new interview and then every new idea has been
\* handed to runContentAgent exactly once, in list order, and the reported
\* counts add up to the number of agent runs that returned without error.
C30_FailedRunDoesNotStopOthers ==
    (given.op = "runDailyCheck" /\ gen.pc = "done")
    => /\ gen.handed = NewInterviews \o NewIdeas
       /\ returned.interviews + returned.ideas = Len(gen.completed)
       /\ returned.interviews =
              Len(SelectSeq(gen.completed, LAMBDA id : id \in InterviewIds))

\* a run in which the first interview's and the first idea's agent runs
\* failed and the later ones completed
C30_Witness ==
    /\ given.op = "runDailyCheck"
    /\ gen.pc = "done"
    /\ Len(NewInterviews) = 3
    /\ Len(NewIdeas) = 2
    /\ gen.completed = <<NewInterviews[2], NewInterviews[3], NewIdeas[2]>>
    /\ returned.interviews = 2
    /\ returned.ideas = 1

=============================================================================
